---------------------------- MODULE Spec2Model ----------------------------
(***************************************************************************)
(* PyMuLiSe: the library reconciliation engine (scan_library), the flat    *)
(* file catalog (data/songs.json, albums.json, artists.json) and the       *)
(* snapshot cache with its periodic background scan (LibraryService).      *)
(*                                                                         *)
(* Strings that the code inspects character by character (paths, artist    *)
(* names, genres) are sequences of one-character strings.  SHA-256 is      *)
(* modelled as an injective tag around the hashed text.  Loudness values   *)
(* are exact rationals <<numerator, denominator>>.                         *)
(***************************************************************************)
EXTENDS Integers, Sequences, FiniteSets, TLC

(***************************************************************************)
(* Bounds of the model.                                                    *)
(***************************************************************************)
MaxFiles == 2
MaxFsChanges == 1
MaxCrashes == 1
MaxStartCalls == 2
MaxOps == 3

(***************************************************************************)
(* Generic helpers on sequences.                                           *)
(***************************************************************************)
Range(s) == {s[i] : i \in 1..Len(s)}

RECURSIVE MapSeq(_, _)
MapSeq(F(_), s) ==
  IF s = <<>> THEN <<>> ELSE <<F(Head(s))>> \o MapSeq(F, Tail(s))

\* xs without its first element equal to x (list.remove on values)
RECURSIVE RemoveFirst(_, _)
RemoveFirst(s, x) ==
  IF s = <<>> THEN <<>>
  ELSE IF Head(s) = x THEN Tail(s) ELSE <<Head(s)>> \o RemoveFirst(Tail(s), x)

\* the elements of s in order, each kept at its first occurrence only
RECURSIVE Dedup(_)
Dedup(s) ==
  IF s = <<>> THEN <<>>
  ELSE LET r == Dedup(SubSeq(s, 1, Len(s) - 1)) IN
       IF s[Len(s)] \in Range(r) THEN r ELSE Append(r, s[Len(s)])

RECURSIVE Flatten(_)
Flatten(ss) == IF ss = <<>> THEN <<>> ELSE Head(ss) \o Flatten(Tail(ss))

Reverse(s) == [i \in 1..Len(s) |-> s[Len(s) + 1 - i]]

\* sub is a contiguous part of s (Python's  sub in s  on strings)
IsSubstring(sub, s) ==
  \E i \in 0..(Len(s) - Len(sub)) : SubSeq(s, i + 1, i + Len(sub)) = sub

(***************************************************************************)
(* Exact rationals for loudness.                                           *)
(***************************************************************************)
Abs(n) == IF n < 0 THEN -n ELSE n

RECURSIVE Gcd(_, _)
Gcd(a, b) == IF b = 0 THEN a ELSE Gcd(b, a % b)

RatNorm(n, d) ==
  LET g == Gcd(Abs(n), d) IN
  IF n = 0 THEN <<0, 1>> ELSE <<(IF n < 0 THEN -1 ELSE 1) * (Abs(n) \div g), d \div g>>

RatAdd(a, b) == RatNorm(a[1] * b[2] + b[1] * a[2], a[2] * b[2])

RatDivInt(a, k) == RatNorm(a[1], a[2] * k)

RatOfInt(n) == <<n, 1>>

RatZero == <<0, 1>>

\* Python truthiness of a number
Truthy(r) == r[1] # 0

RECURSIVE RatSum(_)
RatSum(s) == IF s = <<>> THEN RatZero ELSE RatAdd(Head(s), RatSum(Tail(s)))

RatLess(a, b) == a[1] * b[2] < b[1] * a[2]

RECURSIVE RatMax(_)
RatMax(s) ==
  IF Len(s) = 1 THEN s[1]
  ELSE LET m == RatMax(Tail(s)) IN IF RatLess(Head(s), m) THEN m ELSE Head(s)


(***************************************************************************)
(* Character strings.                                                      *)
(***************************************************************************)
UpperChars == <<"A", "B", "C", "D", "N", "S", "V", "X", "Y">>
LowerChars == <<"a", "b", "c", "d", "n", "s", "v", "x", "y">>

LowerChar(c) ==
  IF \E i \in 1..Len(UpperChars) : UpperChars[i] = c
  THEN LowerChars[CHOOSE i \in 1..Len(UpperChars) : UpperChars[i] = c]
  ELSE c

\* str.lower()
Lower(s) == [i \in 1..Len(s) |-> LowerChar(s[i])]

\* str.replace(old, new) for a one-character old
ReplaceChar(s, old, new) == [i \in 1..Len(s) |-> IF s[i] = old THEN new ELSE s[i]]

\* str.replace(old, new) for any non-empty old: leftmost, non-overlapping
RECURSIVE ReplaceStr(_, _, _)
ReplaceStr(s, old, new) ==
  IF Len(s) < Len(old) THEN s
  ELSE IF SubSeq(s, 1, Len(old)) = old
       THEN new \o ReplaceStr(SubSeq(s, Len(old) + 1, Len(s)), old, new)
       ELSE <<Head(s)>> \o ReplaceStr(Tail(s), old, new)

\* str.strip() for blanks
RECURSIVE LStrip(_)
LStrip(s) == IF s # <<>> /\ Head(s) = " " THEN LStrip(Tail(s)) ELSE s

Strip(s) == Reverse(LStrip(Reverse(LStrip(s))))

\* sep.join(parts)
RECURSIVE Join(_, _)
Join(sep, parts) ==
  IF parts = <<>> THEN <<>>
  ELSE IF Len(parts) = 1 THEN parts[1]
  ELSE parts[1] \o sep \o Join(sep, Tail(parts))

\* re.split on a class of single characters: the parts between separators
RECURSIVE SplitChars(_, _)
SplitChars(s, seps) ==
  IF \A i \in 1..Len(s) : s[i] \notin seps THEN <<s>>
  ELSE LET k == CHOOSE i \in 1..Len(s) :
                  s[i] \in seps /\ \A j \in 1..(i - 1) : s[j] \notin seps
       IN <<SubSeq(s, 1, k - 1)>> \o SplitChars(SubSeq(s, k + 1, Len(s)), seps)

\* os.path.dirname
DirName(path) ==
  IF \A i \in 1..Len(path) : path[i] # "/" THEN <<>>
  ELSE LET k == CHOOSE i \in 1..Len(path) :
                  path[i] = "/" /\ \A j \in (i + 1)..Len(path) : path[j] # "/"
       IN IF k = 1 THEN <<"/">> ELSE SubSeq(path, 1, k - 1)

(***************************************************************************)
(* The music directory: paths, and the tags the tag reader finds in a file.*)
(***************************************************************************)
PXA == <<"/", "x", "/", "a">>
PXB == <<"/", "x", "/", "b">>
PYA == <<"/", "y", "/", "a">>

\* the order in which find_song_paths walks the directory tree
ListOrder == <<PXA, PXB, PYA>>
AllPaths == Range(ListOrder)

NX == <<"X">>
NB == <<"B">>
NC == <<"C">>

\* a fixed enumeration of names, used to list a Python set in one of the
\* two orders a process (a string hash seed) can produce
NameOrder ==
  <<NB, NC, NX,
    <<"v", "a", "r", "i", "o", "u", "s", " ", "a", "r", "t", "i", "s", "t", "s">>>>

\* titles and album names
TS1 == <<"s", "1">>
TS2 == <<"s", "2">>
AY == <<"Y">>

GenreRP == <<"r", "/", "p">>
GenreK == <<"k">>

\* what the tag reader returns for a file (others: the names in the album
\* artist and artist tags): kind 1 has one artist, kind 2 has a featured
\* artist and a genre tag holding a separator
TagKinds ==
  << [title |-> TS1, album |-> AY, album_artist |-> NX, others |-> {NX},
      disc_number |-> 1, track_number |-> 1, genres |-> <<>>,
      release_year |-> 2001, duration |-> 200],
     [title |-> TS2, album |-> AY, album_artist |-> NB, others |-> {NB, NC},
      disc_number |-> 1, track_number |-> 2, genres |-> <<GenreRP>>,
      release_year |-> 1999, duration |-> 100] >>

\* what a path holds: 0 for no file, k for a file with tags TagKinds[k]
FileKinds == 0..Len(TagKinds)

VariousArtistsName ==
  <<"V", "a", "r", "i", "o", "u", "s", " ", "A", "r", "t", "i", "s", "t", "s">>

VARIOUS_TERMS ==
  { <<"v", "a", "r", "i", "o", "u", "s", " ", "a", "r", "t", "i", "s", "t", "s">>,
    <<"v", "e", "r", "s", "c", "h", "i", "e", "d", "e", "n", "e", " ",
      "i", "n", "t", "e", "r", "p", "r", "e", "t", "e", "n">>,
    <<"v", "e", "r", "s", "c", "h", "i", "e", "d", "e", "n", "e", " ",
      "k", "ü", "n", "s", "t", "l", "e", "r">>,
    <<"v", "a", "r", "i", "o", "u", "s">> }

(***************************************************************************)
(* Song                                                                    *)
(***************************************************************************)
\* list(a set of names): its order depends on the process's string hash seed
RECURSIVE FilterSeq(_, _)
FilterSeq(s, S) ==
  IF s = <<>> THEN <<>>
  ELSE (IF Head(s) \in S THEN <<Head(s)>> ELSE <<>>) \o FilterSeq(Tail(s), S)

ListOfSet(S, order, seed) ==
  IF seed = 1 THEN FilterSeq(order, S) ELSE FilterSeq(Reverse(order), S)

SetAsList(S, seed) == ListOfSet(S, NameOrder, seed)

get_artists(song) ==
  Join(<<",", " ">>, <<song.album_artist>> \o song.other_artists)

NoHash == <<>>

\* a Song has no popularity attribute until scan_library assigns one
NoPopularity == <<>>

Sha256OfSong(song) ==
  <<"sha256", get_artists(song), song.album, song.disc_number,
    song.track_number, song.title>>

\* get_hash: the cached hash when there is one, else computed and cached
WithHash(song) ==
  IF song.hash # NoHash THEN song ELSE [song EXCEPT !.hash = Sha256OfSong(song)]

get_hash(song) == WithHash(song).hash

NewAdditionalData == [lastfm_update |-> "none", wiki_update |-> FALSE]

\* the directories that hold an image file named cover.jpg
CoverDirs == {DirName(PXA)}

\* find_cover_art: the image of the directory; the audio files of the model
\* embed no picture, so extract_cover finds none
find_cover_art(file_path) ==
  IF DirName(file_path) \in CoverDirs
  THEN DirName(file_path) \o <<"/", "c", "o", "v", "e", "r", ".", "j", "p", "g">>
  ELSE <<>>

\* Song(file_path, skip_analysis=True) for a file holding the tags t
SongOfTags(path, t, seed) ==
  WithHash([file_path |-> path,
            track_number |-> t.track_number,
            disc_number |-> t.disc_number,
            title |-> t.title,
            album_artist |-> t.album_artist,
            other_artists |->
              SetAsList({a \in t.others : a # <<>> /\ a # VariousArtistsName}, seed),
            album |-> t.album,
            duration |-> t.duration,
            release_year |-> t.release_year,
            genres |-> t.genres,
            play_count |-> 0,
            cover_art |-> find_cover_art(path),
            loudness |-> RatZero,
            peak |-> RatZero,
            lastfm_playcount |-> 0,
            lastfm_tags |-> <<>>,
            hash |-> NoHash,
            popularity |-> NoPopularity,
            additional_data |-> NewAdditionalData])

\* Song(file_path, skip_analysis=True) for a file holding tags of kind k
NewSong(path, k, seed) == SongOfTags(path, TagKinds[k], seed)

PersistedKeys ==
  {"file_path", "track_number", "disc_number", "title", "album_artist",
   "other_artists", "album", "duration", "release_year", "genres", "play_count",
   "cover_art", "loudness", "peak", "lastfm_playcount", "lastfm_tags", "hash"}

\* Song.to_dict
to_dict(song) == [k \in PersistedKeys |-> song[k]]

GenreSeparators == {",", "&", "/", ";"}

\* Song._fix_genres (the genre strings of the model hold no blank, so only
\* the single-character alternatives of the pattern can match)
fix_genres(genres) ==
  LET parts(g) == SplitChars(g, GenreSeparators)
      fixed == Flatten(MapSeq(parts, genres))
      kept == FilterSeq(MapSeq(Strip, fixed), Range(MapSeq(Strip, fixed)) \ {<<>>})
  IN Dedup(kept)

\* dict.get(key, default)
Get(d, key, default) == IF key \in DOMAIN d THEN d[key] ELSE default

\* Song.from_dict ("" and [] are both the empty sequence)
from_dict(d) ==
  [file_path |-> Get(d, "file_path", <<>>),
   track_number |-> Get(d, "track_number", 0),
   disc_number |-> Get(d, "disc_number", 0),
   title |-> Get(d, "title", <<>>),
   album_artist |-> Get(d, "album_artist", <<>>),
   other_artists |-> Get(d, "other_artists", <<>>),
   album |-> Get(d, "album", <<>>),
   duration |-> Get(d, "duration", 0),
   release_year |-> Get(d, "release_year", 0),
   genres |-> fix_genres(Get(d, "genres", <<>>)),
   play_count |-> Get(d, "play_count", 0),
   cover_art |-> Get(d, "cover_art", <<>>),
   loudness |-> Get(d, "loudness", RatZero),
   peak |-> Get(d, "peak", RatZero),
   lastfm_playcount |-> Get(d, "lastfm_playcount", 0),
   lastfm_tags |-> Get(d, "lastfm_tags", <<>>),
   hash |-> Get(d, "hash", NoHash),
   popularity |-> NoPopularity,
   additional_data |-> NewAdditionalData]

(***************************************************************************)
(* Artist.get_simple_name                                                  *)
(***************************************************************************)
UnderscoredChars == <<" ", "/", "\\", ":", "*", "?", "\"", "<", ">", "|">>

RECURSIVE ReplaceAll(_, _)
ReplaceAll(s, olds) ==
  IF olds = <<>> THEN s ELSE ReplaceAll(ReplaceChar(s, Head(olds), "_"), Tail(olds))

get_simple_name(name) ==
  Strip(Lower(ReplaceStr(ReplaceAll(name, UnderscoredChars), <<"a", "n", "d">>, <<"&">>)))


(***************************************************************************)
(* Album.  Songs are shared objects: an album holds object ids (indices    *)
(* into the heap of Song objects of the pass), not copies.                 *)
(***************************************************************************)
DefaultAlbumLoudness == RatOfInt(-6)

UnknownName == <<"u", "n", "k", "n", "o", "w", "n">>

NewAlbum(album_path) ==
  [name |-> <<>>, album_artist |-> <<>>, artists |-> <<>>, release_year |-> 0,
   play_count |-> 0, songs |-> <<>>, path |-> <<>>, cover_art |-> <<>>,
   album_path |-> album_path, loudness |-> RatZero, peak |-> RatZero,
   hash |-> <<"sha256", album_path>>]

\* s sorted by (disc_number, track_number), equal keys in their old order
RECURSIVE SortByTrack(_, _)
SortByTrack(s, heap) ==
  IF s = <<>> THEN <<>>
  ELSE LET rest == SortByTrack(SubSeq(s, 1, Len(s) - 1), heap)
           x == s[Len(s)]
           le(a, b) ==
             \/ heap[a].disc_number < heap[b].disc_number
             \/ /\ heap[a].disc_number = heap[b].disc_number
                /\ heap[a].track_number <= heap[b].track_number
           \* x goes after the longest prefix of elements not greater than it
           k == IF \A i \in 1..Len(rest) : le(rest[i], x) THEN Len(rest)
                ELSE (CHOOSE i \in 1..Len(rest) :
                        ~le(rest[i], x) /\ \A j \in 1..(i - 1) : le(rest[j], x)) - 1
       IN SubSeq(rest, 1, k) \o <<x>> \o SubSeq(rest, k + 1, Len(rest))

RECURSIVE SumSeq(_)
SumSeq(s) == IF s = <<>> THEN 0 ELSE Head(s) + SumSeq(Tail(s))

MaxOf(S) == CHOOSE x \in S : \A y \in S : y <= x

\* the keys of a counting dict in insertion order: the known (non-empty, not
\* "unknown") values of a field over the songs
KnownValues(values) ==
  Dedup(FilterSeq(values, {v \in Range(values) : v # <<>> /\ Lower(v) # UnknownName}))

CountOf(values, v) == Cardinality({i \in 1..Len(values) : values[i] = v})

\* lines 86-90: "for albumname, count in albumname_count.items(): if count >
\* max_count: self.name = albumname; count = max_count" (max_count stays 0)
MostCommonAlbumName(album, albums_of_songs) ==
  LET names == KnownValues(albums_of_songs)
      step[i \in 0..Len(names)] ==
        IF i = 0 THEN [name |-> album.name, max_count |-> 0]
        ELSE IF CountOf(albums_of_songs, names[i]) > step[i - 1].max_count
             THEN [step[i - 1] EXCEPT !.name = names[i]]
             ELSE step[i - 1]
  IN step[Len(names)].name

\* lines 100-102: the name that every song carries
UnanimousValue(previous, values, n) ==
  LET names == KnownValues(values)
      step[i \in 0..Len(names)] ==
        IF i = 0 THEN previous
        ELSE IF CountOf(values, names[i]) = n THEN names[i] ELSE step[i - 1]
  IN step[Len(names)]

\* Album._retag_from_songs
retag_from_songs(album, heap) ==
  LET song(i) == heap[album.songs[i]]
      n == Len(album.songs)
      albums_of_songs == [i \in 1..n |-> song(i).album]
      artists_of_songs == [i \in 1..n |-> song(i).album_artist]
      name1 == MostCommonAlbumName(album, albums_of_songs)
      name2 == UnanimousValue(name1, albums_of_songs, n)
      new_artists == FilterSeq(KnownValues(artists_of_songs),
                               Range(KnownValues(artists_of_songs)) \ Range(album.artists))
      album_artist1 == UnanimousValue(album.album_artist, artists_of_songs, n)
      years == {song(i).release_year : i \in 1..n} \ {0}
      loud_values ==
        Flatten([i \in 1..n |->
                   IF Truthy(song(i).loudness) THEN <<song(i).loudness>> ELSE <<>>])
      peak_values == [i \in 1..n |-> song(i).peak]
  IN [album EXCEPT
        !.play_count = SumSeq([i \in 1..n |-> song(i).play_count]),
        !.name = name2,
        !.artists = @ \o new_artists,
        !.album_artist = IF album_artist1 = <<>> \/ Lower(album_artist1) = UnknownName
                         THEN VariousArtistsName ELSE album_artist1,
        !.release_year = MaxOf(years \cup {album.release_year}),
        !.loudness = IF loud_values # <<>>
                     THEN RatDivInt(RatSum(loud_values), Len(loud_values))
                     ELSE DefaultAlbumLoudness,
        !.peak = IF peak_values # <<>> THEN RatMax(peak_values) ELSE RatZero]

\* an album that leaves its songs in the order in which they were added
keep_insertion_order(album, heap) == album

\* Album._sort_by_track_number
sort_by_track_number(album, heap) == [album EXCEPT !.songs = SortByTrack(@, heap)]

\* Album.add_song
add_song(album, oid, heap) ==
  LET a1 == [album EXCEPT !.songs = Append(@, oid)]
      a2 == IF heap[oid].cover_art # <<>> /\ a1.cover_art = <<>>
            THEN [a1 EXCEPT !.cover_art = heap[oid].cover_art] ELSE a1
  IN sort_by_track_number(retag_from_songs(a2, heap), heap)

RECURSIVE AddSongs(_, _, _)
AddSongs(album, oids, heap) ==
  IF oids = <<>> THEN album
  ELSE AddSongs(add_song(album, Head(oids), heap), Tail(oids), heap)

\* the path normalisation of the album membership test
NormPath(path) == ReplaceChar(Lower(path), "\\", "/")

\* the directories of the model in a fixed enumeration, to list a Python set
\* two more music files: one in a sibling directory whose name starts with
\* the name of PXA's directory, one in a directory spelled in capitals
PXYA == <<"/", "x", "y", "/", "a">>
PUXB == <<"/", "X", "/", "b">>

DirOrder == <<DirName(PXA), DirName(PYA), DirName(PXYA), DirName(PUXB)>>

\* scan_library, "Map songs to albums"
MapSongsToAlbums(song_paths, updated, heap, seed) ==
  LET album_paths == ListOfSet({DirName(p) : p \in Range(song_paths)}, DirOrder, seed)
      in_album(ap) ==
        Flatten([i \in 1..Len(updated) |->
                   IF IsSubstring(NormPath(ap), NormPath(heap[updated[i]].file_path))
                   THEN <<updated[i]>> ELSE <<>>])
  IN [i \in 1..Len(album_paths) |->
        AddSongs(NewAlbum(album_paths[i]), in_album(album_paths[i]), heap)]

\* scan_library, "Guess loudness and peak for songs without analysis"
RECURSIVE GuessSongs(_, _, _)
GuessSongs(album, oids, heap) ==
  IF oids = <<>> THEN heap
  ELSE LET o == Head(oids)
           h1 == IF ~Truthy(heap[o].loudness)
                 THEN [heap EXCEPT ![o].loudness = album.loudness] ELSE heap
           h2 == IF ~Truthy(h1[o].peak)
                 THEN [h1 EXCEPT ![o].peak = album.peak] ELSE h1
       IN GuessSongs(album, Tail(oids), h2)

RECURSIVE GuessLoudness(_, _)
GuessLoudness(albums, heap) ==
  IF albums = <<>> THEN heap
  ELSE GuessLoudness(Tail(albums),
                     IF Truthy(Head(albums).loudness)
                     THEN GuessSongs(Head(albums), Head(albums).songs, heap)
                     ELSE heap)

\* Album.to_dict
album_to_dict(album, heap) ==
  [name |-> album.name,
   album_artist |-> album.album_artist,
   artists |-> album.artists,
   release_year |-> album.release_year,
   play_count |-> album.play_count,
   songs |-> [i \in 1..Len(album.songs) |-> get_hash(heap[album.songs[i]])],
   path |-> album.path,
   cover_art |-> album.cover_art,
   album_path |-> album.album_path,
   loudness |-> album.loudness, peak |-> album.peak, hash |-> album.hash]

(***************************************************************************)
(* Artist                                                                  *)
(***************************************************************************)
NewArtist(name) ==
  [hash |-> <<"sha256", name>>, name |-> name, play_count |-> 0,
   songs |-> <<>>, albums |-> <<>>]

\* Artist._update_most_common_name; the names are counted in the order in
\* which the songs first bring them up (the order of a Python dict)
update_most_common_name(artist, heap) ==
  LET known == Flatten([i \in 1..Len(artist.songs) |->
                 LET n == heap[artist.songs[i]].album_artist IN
                 IF n # <<>> /\ Lower(n) # UnknownName THEN <<n>> ELSE <<>>])
      names == Dedup(known)
      count(n) == Cardinality({i \in 1..Len(known) : known[i] = n})
      step[i \in 0..Len(names)] ==
        IF i = 0 THEN [name |-> artist.name, max_count |-> 0]
        ELSE LET prev == step[i - 1]
                 c == count(names[i])
             IN IF c = Len(artist.songs) THEN [prev EXCEPT !.name = names[i]]
                ELSE IF c > prev.max_count
                     THEN [name |-> names[i], max_count |-> c]
                     ELSE prev
  IN IF artist.songs = <<>> THEN artist
     ELSE [artist EXCEPT !.name = step[Len(names)].name]

\* Artist.add_song
artist_add_song(artist, oid, heap) ==
  update_most_common_name(
    [artist EXCEPT
       !.songs = IF oid \in Range(@) THEN @ ELSE Append(@, oid),
       !.play_count = @ + heap[oid].play_count], heap)

\* scan_library, "Map songs to artists": the dict as a sequence of
\* [key, artist] in insertion order
RECURSIVE MapSongsToArtists(_, _, _)
MapSongsToArtists(pairs, dict, heap) ==
  IF pairs = <<>> THEN dict
  ELSE LET oid == Head(pairs)[1]
           artist_name == Head(pairs)[2]
           simple_name == get_simple_name(artist_name)
           d1 == IF \E i \in 1..Len(dict) : dict[i].key = simple_name THEN dict
                 ELSE Append(dict, [key |-> simple_name, artist |-> NewArtist(artist_name)])
           k == CHOOSE i \in 1..Len(d1) : d1[i].key = simple_name
           d2 == [d1 EXCEPT ![k].artist = artist_add_song(@, oid, heap)]
       IN MapSongsToArtists(Tail(pairs), IF artist_name # <<>> THEN d2 ELSE dict, heap)

ArtistPairs(updated, heap) ==
  Flatten([i \in 1..Len(updated) |->
    LET s == heap[updated[i]]
        names == <<s.album_artist>> \o s.other_artists
    IN [j \in 1..Len(names) |-> <<updated[i], names[j]>>]])

ArtistObjects(updated, heap) ==
  LET dict == MapSongsToArtists(ArtistPairs(updated, heap), <<>>, heap)
  IN [i \in 1..Len(dict) |-> dict[i].artist]

\* scan_library, "Map albums to artists": an artist refers to the album
\* objects of the pass, which are told apart by their hash (one per path)
MapAlbumsToArtists(artist_objects, album_objects) ==
  [i \in 1..Len(artist_objects) |->
     [artist_objects[i] EXCEPT !.albums =
        LET mine == {j \in 1..Len(album_objects) :
                       Range(album_objects[j].songs) \cap Range(artist_objects[i].songs) # {}}
        IN @ \o [k \in 1..Len(FilterSeq(album_objects, {album_objects[j] : j \in mine})) |->
                  FilterSeq(album_objects, {album_objects[j] : j \in mine})[k].hash]]]

\* scan_library, "Map albums to artists", the popularity assignment: one artist
\* rates the songs of the albums that have a play count
RECURSIVE RateSongs(_, _, _)
RateSongs(artist, oids, heap) ==
  IF oids = <<>> THEN heap
  ELSE LET s == heap[Head(oids)]
       IN RateSongs(artist, Tail(oids),
            IF s.play_count # 0 \/ s.lastfm_playcount # 0
            THEN [heap EXCEPT ![Head(oids)].popularity =
                    RatNorm(s.play_count + s.lastfm_playcount,
                            MaxOf({1, artist.play_count}))]
            ELSE heap)

\* the loop over artist_objects: every artist rates every song of every
\* album, so the last artist's rating is the one that stays
RECURSIVE SetPopularity(_, _, _)
SetPopularity(artist_objects, album_objects, heap) ==
  IF artist_objects = <<>> THEN heap
  ELSE SetPopularity(Tail(artist_objects), album_objects,
         RateSongs(Head(artist_objects),
                   Flatten([j \in 1..Len(album_objects) |-> album_objects[j].songs]),
                   heap))

\* an overlap measured against the first list alone
overlap_of_first(xs, ys) ==
  IF xs = <<>> \/ ys = <<>> THEN RatZero
  ELSE RatNorm(Cardinality(Range(xs) \cap Range(ys)),
               MaxOf({1, Cardinality(Range(xs))}))

\* general_utils._jaccard_index
jaccard_index(xs, ys) ==
  IF xs = <<>> \/ ys = <<>> THEN RatZero
  ELSE RatNorm(Cardinality(Range(xs) \cap Range(ys)),
               MaxOf({1, Cardinality(Range(xs) \cup Range(ys))}))

\* calc_song_similarity; the factor 0.2 is the rational 1/5
calc_song_similarity(song1, song2) ==
  IF \/ song1.file_path = song2.file_path
     \/ (song1.album = song2.album /\ song1.album_artist = song2.album_artist)
  THEN RatOfInt(1)
  ELSE LET genre_score == jaccard_index(song1.genres, song2.genres)
           tag_score == jaccard_index(song1.lastfm_tags, song2.lastfm_tags)
           artist_score == jaccard_index(song1.other_artists \o <<song1.album_artist>>,
                                         song2.other_artists \o <<song2.album_artist>>)
           years == RatMax(<<RatNorm(song1.release_year - song2.release_year, 5),
                             RatNorm(song2.release_year - song1.release_year, 5),
                             RatOfInt(1)>>)
           best == RatMax(<<genre_score, tag_score, artist_score>>)
           score == RatNorm(best[1] * years[2], best[2] * years[1])
       IN IF RatLess(RatOfInt(1), score) THEN RatOfInt(1) ELSE score

\* the lists of n different elements of S: what random.shuffle, and
\* random.choices with the duplicates dropped and the random top-up, can give
DistinctSeqs(S, n) ==
  {q \in [1..n -> S] : \A i, j \in 1..n : i # j => q[i] # q[j]}

\* song_recommendations(song, all_songs, number=number) without seed and
\* scene: the set of its possible outcomes.  Songs are told apart as objects
\* (Song defines no __eq__), so song is an index into all_songs and a result
\* is a list of indices.  Reading the popularity of a candidate that was
\* never given one raises AttributeError, max() of an empty list ValueError.
song_recommendations(song, all_songs, number) ==
  LET eligible == {i \in 1..Len(all_songs) : i # song /\ all_songs[i].duration >= 120}
      weight(i) ==
        LET sim == calc_song_similarity(all_songs[song], all_songs[i])
            pop == IF RatLess(RatOfInt(1), all_songs[i].popularity)
                   THEN RatOfInt(1) ELSE all_songs[i].popularity
        IN RatNorm(sim[1] * pop[1], sim[2] * pop[2])
      others == {i \in eligible :
                   all_songs[i].album_artist # all_songs[song].album_artist}
      positive == {i \in eligible : Truthy(weight(i))}
  IN IF \E i \in eligible : all_songs[i].popularity = NoPopularity
     THEN {[raised |-> "AttributeError", songs |-> <<>>]}
     ELSE IF others = {}
     THEN {[raised |-> "ValueError", songs |-> <<>>]}
     ELSE IF Cardinality(eligible) <= number
     THEN {[raised |-> "none", songs |-> q] :
             q \in DistinctSeqs(eligible, Cardinality(eligible))}
     ELSE {[raised |-> "none", songs |-> q] :
             q \in {r \in DistinctSeqs(eligible, number) :
                      positive = {} \/ r[1] \in positive}}

\* Artist.is_artist_of: the artist's own name is lower-cased and stripped
\* before the replacements, the song's names (the album artist split at
\* commas, and the other artists) go through get_simple_name
is_artist_of(artist, song) ==
  LET names == (IF song.album_artist # <<>>
                THEN SplitChars(song.album_artist, {","}) ELSE <<>>)
               \o song.other_artists
      clean_artist_names == {get_simple_name(names[i]) : i \in 1..Len(names)}
      clean_name == ReplaceStr(ReplaceAll(Strip(Lower(artist.name)), UnderscoredChars),
                               <<"a", "n", "d">>, <<"&">>)
  IN clean_name \in clean_artist_names

\* Artist.to_dict
artist_to_dict(artist, heap) ==
  [hash |-> artist.hash,
   name |-> artist.name,
   play_count |-> artist.play_count,
   songs |-> [i \in 1..Len(artist.songs) |-> get_hash(heap[artist.songs[i]])],
   albums |-> artist.albums]


(***************************************************************************)
(* State                                                                   *)
(***************************************************************************)
VARIABLES
  disk,              \* the music directory: path -> kind of file (0: none)
  songsJson,         \* data/songs.json
  albumsJson,        \* data/albums.json
  artistsJson,       \* data/artists.json
  env,               \* the process environment: MUSIC_DIR, LASTFM_API_KEY set?
  hashSeed,          \* the string hash seed of the running process
  library_snapshot,  \* LibraryService.library_snapshot
  song_map,          \* LibraryService.song_map: hash -> Song
  cover_map,         \* LibraryService.cover_map: hash of a cover path -> path
  album_map,         \* LibraryService.album_map: hash -> Album
  artist_map,        \* LibraryService.artist_map: name -> Artist
  task,              \* LibraryService._task: 0 for None, else the task's id
  lock,              \* LibraryService._lock: 0 when free, else its holder
  loops,             \* the _periodic_scan coroutine of each created task
  scan,              \* the scan_library call (worker thread) of each task
  stable,            \* a pass has completed and nothing changed since
  lastRead,          \* what the last reader call returned, and when
  reply,             \* the value a query handler is returning to its caller
  ent,               \* a Song, Album or Artist object worked on by itself
  nFsChanges, nCrashes, nStartCalls

vars ==
  <<disk, songsJson, albumsJson, artistsJson, env, hashSeed, library_snapshot,
    song_map, cover_map, album_map, artist_map, task, lock, loops, scan, stable,
    lastRead, reply, ent, nFsChanges, nCrashes, nStartCalls>>

files == <<songsJson, albumsJson, artistsJson>>
indices == <<song_map, cover_map, album_map, artist_map>>
catalog == <<library_snapshot, indices>>
service == <<catalog, task, lock, loops>>
\* what only the query handlers and the single-object operations touch
probes == <<reply, ent>>
counters == <<nFsChanges, nCrashes, nStartCalls>>

TaskIds == 1..MaxStartCalls

AbsentFile == [st |-> "absent", data |-> <<>>]
TornFile == [st |-> "torn", data |-> <<>>]
FileOf(data) == [st |-> "ok", data |-> data]

\* LibraryService._periodic_scan, lines 46-51: the indices of a snapshot (a
\* dict comprehension keeps, for a key met twice, the later value)
LastWith(s, Key(_), k) ==
  s[MaxOf({i \in 1..Len(s) : Key(s[i]) = k})]

CoverKey(song) == <<"sha256", song.cover_art>>
AlbumKey(album) == album.hash
ArtistKey(artist) == artist.name

SongMapOf(songs) ==
  [k \in {get_hash(songs[i]) : i \in 1..Len(songs)} |-> LastWith(songs, get_hash, k)]

CoverMapOf(songs) ==
  [k \in {CoverKey(songs[i]) : i \in 1..Len(songs)} |->
     LastWith(songs, CoverKey, k).cover_art]

AlbumMapOf(albums) ==
  [k \in {AlbumKey(albums[i]) : i \in 1..Len(albums)} |-> LastWith(albums, AlbumKey, k)]

ArtistMapOf(artists) ==
  [k \in {ArtistKey(artists[i]) : i \in 1..Len(artists)} |->
     LastWith(artists, ArtistKey, k)]

\* no handler is returning / no object is being worked on
NoReply == [op |-> "none"]
NoEntity == [kind |-> "none"]

EmptySnapshot == [songs |-> <<>>, albums |-> <<>>, artists |-> <<>>]

IdleScan ==
  [pc |-> "idle", err |-> "none", heap |-> <<>>, existing |-> <<>>,
   existing_albums |-> <<>>, existing_artists |-> <<>>, existing_paths |-> {},
   song_paths |-> <<>>, updated |-> <<>>, was_updated |-> FALSE,
   albums |-> <<>>, artists |-> <<>>, ret |-> EmptySnapshot,
   absent_at_load |-> {}, loaded |-> EmptySnapshot,
   start_songs |-> AbsentFile, pass_stable |-> FALSE,
   loud_calls |-> {}, loud_failed |-> {}, lastfm_calls |-> {}, wiki_calls |-> {},
   unsaved |-> {}]

Envs == [music_dir : BOOLEAN, lastfm_key : BOOLEAN]

\* the external services: the play count Last.fm reports for a title (0: the
\* track is unknown) and the genres Wikipedia gives for an artist name
World ==
  [plays |-> [title \in {TS1, TS2} |-> IF title = TS1 THEN 5 ELSE 0],
   genres |-> [n \in {<<"x">>, <<"b">>, <<"c">>} |->
                 IF n = <<"x">> THEN <<GenreK>> ELSE <<>>]]

\* the music directories: at most MaxFiles files
FilesOn(d) == {p \in AllPaths : d[p] # 0}

Disks == {d \in [AllPaths -> FileKinds] : Cardinality(FilesOn(d)) <= MaxFiles}

Init ==
  /\ disk \in Disks
  /\ songsJson = AbsentFile
  /\ albumsJson = AbsentFile
  /\ artistsJson = AbsentFile
  /\ env \in Envs
  /\ hashSeed = 1
  /\ library_snapshot = EmptySnapshot
  /\ song_map = SongMapOf(<<>>)
  /\ cover_map = CoverMapOf(<<>>)
  /\ album_map = AlbumMapOf(<<>>)
  /\ artist_map = ArtistMapOf(<<>>)
  /\ task = 0
  /\ lock = 0
  /\ loops = [t \in TaskIds |-> "none"]
  /\ scan = [t \in TaskIds |-> IdleScan]
  /\ stable = FALSE
  /\ lastRead = [during |-> FALSE, result |-> EmptySnapshot]
  /\ reply = NoReply
  /\ ent = NoEntity
  /\ nFsChanges = 0
  /\ nCrashes = 0
  /\ nStartCalls = 0


(***************************************************************************)
(* load_library / init_library                                             *)
(***************************************************************************)
Deref(oids, heap) == [i \in 1..Len(oids) |-> heap[oids[i]]]

\* init_library: is the library new?  (a missing albums.json is created but
\* does not make the library new)
init_library_is_new(songsF, albumsF, artistsF) ==
  songsF.st = "absent" \/ artistsF.st = "absent"

\* init_library: a catalog file after the call
init_library_file(f) == IF f.st = "absent" THEN FileOf(<<>>) ELSE f

\* the object that song_map (hash -> Song, built in the order of songs.json)
\* holds for hash h: for two songs of one hash the dict keeps the later one
SongOfHash(h, heap) ==
  LET found == {i \in 1..Len(heap) : get_hash(heap[i]) = h}
  IN IF found = {} THEN <<>> ELSE <<MaxOf(found)>>

\* Album.from_dict, with _search_cover
album_from_dict(d, heap) ==
  [name |-> Get(d, "name", <<>>),
   album_artist |-> Get(d, "album_artist", <<>>),
   artists |-> Get(d, "artists", <<>>),
   release_year |-> Get(d, "release_year", 0),
   play_count |-> Get(d, "play_count", 0),
   songs |-> Flatten([i \in 1..Len(Get(d, "songs", <<>>)) |-> SongOfHash(d.songs[i], heap)]),
   path |-> Get(d, "path", <<>>),
   cover_art |-> IF Get(d, "cover_art", <<>>) # <<>> THEN d.cover_art
                 ELSE find_cover_art(Get(d, "album_path", <<>>)),
   album_path |-> Get(d, "album_path", <<>>),
   loudness |-> Get(d, "loudness", RatZero),
   peak |-> Get(d, "peak", RatZero),
   hash |-> Get(d, "hash", <<>>)]

\* Artist.from_dict: the albums are found by hash in album_map
artist_from_dict(d, heap, albums) ==
  [hash |-> Get(d, "hash", <<>>),
   name |-> Get(d, "name", <<>>),
   play_count |-> Get(d, "play_count", 0),
   songs |-> Flatten([i \in 1..Len(Get(d, "songs", <<>>)) |-> SongOfHash(d.songs[i], heap)]),
   albums |-> FilterSeq(Get(d, "albums", <<>>), {albums[j].hash : j \in 1..Len(albums)})]

\* load_library: [err, heap, songs, albums, artists]
load_library(songsF, albumsF, artistsF) ==
  LET heap == [i \in 1..Len(songsF.data) |-> WithHash(from_dict(songsF.data[i]))]
      empty == [err |-> "none", heap |-> <<>>, albums |-> <<>>, artists |-> <<>>]
  IN IF init_library_is_new(songsF, albumsF, artistsF) THEN empty
     ELSE IF songsF.st = "torn" \/ init_library_file(albumsF).st = "torn"
             \/ artistsF.st = "torn"
          THEN [empty EXCEPT !.err = "JSONDecodeError"]
          ELSE [err |-> "none",
                heap |-> heap,
                albums |-> [i \in 1..Len(init_library_file(albumsF).data) |->
                              album_from_dict(init_library_file(albumsF).data[i], heap)],
                artists |-> [i \in 1..Len(artistsF.data) |->
                              artist_from_dict(artistsF.data[i], heap,
                                [j \in 1..Len(init_library_file(albumsF).data) |->
                                   album_from_dict(init_library_file(albumsF).data[j], heap)])]]

SnapshotOf(oids, albums, artists, heap) ==
  [songs |-> Deref(oids, heap),
   albums |-> [i \in 1..Len(albums) |->
                 [albums[i] EXCEPT !.songs = Deref(albums[i].songs, heap)]],
   artists |-> [i \in 1..Len(artists) |->
                 [artists[i] EXCEPT !.songs = Deref(artists[i].songs, heap)]]]

(***************************************************************************)
(* scan_library: the file diff (lines 148-187)                             *)
(***************************************************************************)
\* find_song_paths
find_song_paths(d) == FilterSeq(ListOrder, {p \in AllPaths : d[p] # 0})

FirstIndex(s, P(_)) == CHOOSE i \in 1..Len(s) : P(s[i]) /\ \A j \in 1..(i - 1) : ~P(s[j])

\* one round of the loop over song_paths; st is the record of the locals
DiffOne(st, song_path, d, seed) ==
  LET at_path(o) == st.heap[o].file_path = song_path
      new_song == NewSong(song_path, d[song_path], seed)
      same_hash(o) == get_hash(st.heap[o]) = new_song.hash
  IN IF st.err # "none" THEN st
     ELSE IF song_path \in st.existing_paths
     THEN IF \E i \in 1..Len(st.existing) : at_path(st.existing[i])
          THEN [st EXCEPT !.updated =
                  Append(@, st.existing[FirstIndex(st.existing, at_path)])]
          ELSE [st EXCEPT !.err = "StopIteration"]
     ELSE IF \E i \in 1..Len(st.existing) : same_hash(st.existing[i])
          THEN LET o == st.existing[FirstIndex(st.existing, same_hash)] IN
               [st EXCEPT !.heap[o].file_path = song_path,
                          !.existing = RemoveFirst(@, o),
                          !.updated = Append(@, o),
                          !.was_updated = TRUE]
          ELSE [st EXCEPT !.heap = Append(@, new_song),
                          !.updated = Append(@, Len(st.heap) + 1),
                          !.was_updated = TRUE]

RECURSIVE DiffLoop(_, _, _, _)
DiffLoop(st, paths, d, seed) ==
  IF paths = <<>> THEN st
  ELSE DiffLoop(DiffOne(st, Head(paths), d, seed), Tail(paths), d, seed)

\* "Remove songs that were deleted": list.remove raises ValueError for an
\* object that is not in the list
RemoveDeletedOne(st, o) ==
  IF st.err # "none" \/ st.heap[o].file_path \in Range(st.song_paths) THEN st
  ELSE IF o \in Range(st.updated)
       THEN [st EXCEPT !.updated = RemoveFirst(@, o), !.was_updated = TRUE]
       ELSE [st EXCEPT !.err = "ValueError: list.remove(x): x not in list"]

RECURSIVE RemoveDeleted(_, _)
RemoveDeleted(st, oids) ==
  IF oids = <<>> THEN st
  ELSE RemoveDeleted(RemoveDeletedOne(st, Head(oids)), Tail(oids))

Raise(st, e) == [st EXCEPT !.pc = "raised", !.err = e]

ToDicts(st) == [i \in 1..Len(st.updated) |-> to_dict(st.heap[st.updated[i]])]


(***************************************************************************)
(* scan_library, step by step.  Each step is one stretch of the function   *)
(* between two points at which its effects on the files can be observed.   *)
(***************************************************************************)
SetScan(t, st) == scan' = [scan EXCEPT ![t] = st]

\* lines 136-138: MUSIC_DIR
ScanBegin(t) ==
  /\ scan[t].pc = "begin"
  /\ SetScan(t, IF env.music_dir
                THEN [scan[t] EXCEPT !.pc = "load", !.pass_stable = stable,
                                     !.start_songs = songsJson]
                ELSE Raise(scan[t], "ValueError: MUSIC_DIR"))
  /\ UNCHANGED <<disk, files, env, hashSeed, probes, service, stable, lastRead, counters>>

\* line 143: load_library (and init_library, which creates missing files)
ScanLoad(t) ==
  /\ scan[t].pc = "load"
  /\ LET l == load_library(songsJson, albumsJson, artistsJson)
         oids == [i \in 1..Len(l.heap) |-> i]
         st == [scan[t] EXCEPT
                  !.heap = l.heap, !.existing = oids,
                  !.existing_albums = l.albums, !.existing_artists = l.artists,
                  !.existing_paths = {l.heap[i].file_path : i \in 1..Len(l.heap)},
                  !.loaded = SnapshotOf(oids, l.albums, l.artists, l.heap),
                  !.absent_at_load =
                     {f \in {"songs", "albums", "artists"} :
                        [songs |-> songsJson, albums |-> albumsJson,
                         artists |-> artistsJson][f].st = "absent"}]
     IN SetScan(t, IF l.err # "none" THEN Raise(st, l.err)
                   ELSE [st EXCEPT !.pc = "diff"])
  /\ songsJson' = init_library_file(songsJson)
  /\ albumsJson' = init_library_file(albumsJson)
  /\ artistsJson' = init_library_file(artistsJson)
  /\ UNCHANGED <<disk, env, hashSeed, probes, service, stable, lastRead, counters>>

\* lines 148-189: the scan of the directory, the diff and the deletions
ScanDiff(t) ==
  /\ scan[t].pc = "diff"
  /\ LET paths == find_song_paths(disk)
         s0 == [scan[t] EXCEPT !.song_paths = paths]
         s1 == DiffLoop(s0, paths, disk, hashSeed)
         s2 == RemoveDeleted(s1, s1.existing)
     IN SetScan(t, IF s2.err # "none" THEN Raise(s2, s2.err)
                   ELSE IF s2.was_updated
                        THEN [s2 EXCEPT !.pc = "save_diff", !.unsaved = {"diff"}]
                        ELSE [s2 EXCEPT !.pc = "loud"])
  /\ UNCHANGED <<disk, files, env, hashSeed, probes, service, stable, lastRead, counters>>

\* open("data/songs.json", "w"): the file is truncated in place
OpenSongs(t) ==
  /\ scan[t].pc \in {"save_diff", "save_loud", "save_songs"}
  /\ songsJson' = TornFile
  /\ SetScan(t, [scan[t] EXCEPT !.pc =
       CASE scan[t].pc = "save_diff" -> "write_diff"
         [] scan[t].pc = "save_loud" -> "write_loud"
         [] OTHER -> "write_songs"])
  /\ UNCHANGED <<disk, albumsJson, artistsJson, env, hashSeed, probes, service, stable,
                 lastRead, counters>>

\* json.dump([s.to_dict() for s in updated_songs], f) and the close
DumpSongs(t) ==
  /\ scan[t].pc \in {"write_diff", "write_loud", "write_songs"}
  /\ songsJson' = FileOf(ToDicts(scan[t]))
  /\ SetScan(t, [scan[t] EXCEPT !.unsaved = {}, !.pc =
       CASE scan[t].pc = "write_diff" -> "loud"
         [] scan[t].pc = "write_loud" -> "lastfm"
         [] OTHER -> "save_albums"])
  /\ UNCHANGED <<disk, albumsJson, artistsJson, env, hashSeed, probes, service, stable,
                 lastRead, counters>>

\* what calculate_loudness can return for a file: (None, None) or a measurement
MeasuredLoudness == RatOfInt(-10)
MeasuredPeak == RatOfInt(-1)

RECURSIVE ApplyLoudness(_, _, _)
ApplyLoudness(heap, oids, ok) ==
  IF oids = <<>> THEN heap
  ELSE ApplyLoudness(
         IF Head(oids) \in ok
         THEN [heap EXCEPT ![Head(oids)].loudness = MeasuredLoudness,
                           ![Head(oids)].peak = MeasuredPeak]
         ELSE heap, Tail(oids), ok)

\* lines 193-222: loudness analysis of the songs without loudness
ScanLoudness(t) ==
  /\ scan[t].pc = "loud"
  /\ LET st == scan[t]
         songs_to_analyze ==
           Flatten([i \in 1..Len(st.updated) |->
                      IF ~Truthy(st.heap[st.updated[i]].loudness)
                      THEN <<st.updated[i]>> ELSE <<>>])
     IN IF songs_to_analyze = <<>>
        THEN SetScan(t, [st EXCEPT !.pc = "lastfm"])
        ELSE \E ok \in SUBSET Range(songs_to_analyze) :
               SetScan(t, [st EXCEPT
                 !.heap = ApplyLoudness(st.heap, songs_to_analyze, ok),
                 !.loud_calls = Range(songs_to_analyze),
                 !.loud_failed = Range(songs_to_analyze) \ ok,
                 !.was_updated = TRUE,
                 !.unsaved = IF ok # {} THEN @ \cup {"loud"} ELSE @,
                 !.pc = "save_loud"])
  /\ UNCHANGED <<disk, files, env, hashSeed, probes, service, stable, lastRead, counters>>


\* update_lastfm_serial_with_throttling: plays[title] is the play count that
\* the lookups for a song of that title end with
\* line 54: the artists a song's play count and tags are looked up under
LastfmArtists(song) ==
  LET artists == FilterSeq(song.other_artists \o <<song.album_artist>>,
                           Range(song.other_artists \o <<song.album_artist>>)
                             \ VARIOUS_TERMS)
  IN IF artists = <<>> THEN <<VariousArtistsName>> ELSE artists

RECURSIVE ApplyLastfm(_, _, _)
ApplyLastfm(heap, oids, plays) ==
  IF oids = <<>> THEN heap
  ELSE LET o == Head(oids)
           looked_up == heap[o].title # <<>> /\ LastfmArtists(heap[o]) # <<>>
       IN ApplyLastfm(
            IF looked_up
            THEN [heap EXCEPT
                    ![o].lastfm_playcount = plays[heap[o].title],
                    ![o].lastfm_tags =
                       IF plays[heap[o].title] # 0 THEN <<"tag">> ELSE <<>>,
                    ![o].additional_data.lastfm_update =
                       IF plays[heap[o].title] # 0 THEN "success" ELSE "fail"]
            ELSE heap, Tail(oids), plays)

\* line 231 and lines 233-235: the songs without genre lookup, and the early
\* return of the loaded library when nothing was updated
AfterLastfm(st) ==
  LET songs_without_wiki ==
        {o \in Range(st.updated) : ~st.heap[o].additional_data.wiki_update}
  IN IF ~st.was_updated /\ songs_without_wiki = {}
     THEN [st EXCEPT !.pc = "returned",
                     !.ret = SnapshotOf(st.existing, st.existing_albums,
                                        st.existing_artists, st.heap)]
     ELSE [st EXCEPT !.pc = IF songs_without_wiki # {} THEN "wiki" ELSE "group"]

\* lines 225-235: Last.fm play counts and tags
ScanLastfm(t) ==
  /\ scan[t].pc = "lastfm"
  /\ LET st == scan[t]
         song_without_lastfm ==
           Flatten([i \in 1..Len(st.updated) |->
             LET s == st.heap[st.updated[i]] IN
             IF s.lastfm_playcount = 0 /\ s.additional_data.lastfm_update = "none"
             THEN <<st.updated[i]>> ELSE <<>>])
     IN IF song_without_lastfm = <<>>
        THEN /\ SetScan(t, AfterLastfm(st))
             /\ stable' = IF AfterLastfm(st).pc = "returned" THEN TRUE ELSE stable
        ELSE /\ stable' = stable
             /\ IF ~env.lastfm_key
                THEN SetScan(t, Raise(st, "ValueError: LASTFM_API_KEY"))
                ELSE \/ SetScan(t, Raise([st EXCEPT !.lastfm_calls =
                                            Range(song_without_lastfm)],
                                         "requests.ConnectionError"))
                     \/ SetScan(t, AfterLastfm([st EXCEPT
                            !.heap = ApplyLastfm(st.heap, song_without_lastfm,
                                                 World.plays),
                            !.lastfm_calls = Range(song_without_lastfm),
                            !.was_updated = TRUE,
                            !.unsaved = @ \cup {"lastfm"}]))
  /\ UNCHANGED <<disk, files, env, hashSeed, probes, service, lastRead, counters>>

\* the names a song is looked up under in the genre step
WikiNames(song) ==
  {get_simple_name(a) :
     a \in {b \in Range(<<song.album_artist>> \o song.other_artists) :
              Lower(b) \notin VARIOUS_TERMS}}

RECURSIVE ApplyGenres(_, _, _)
ApplyGenres(heap, oids, answers) ==
  IF oids = <<>> THEN heap
  ELSE LET o == Head(oids)
           song_genres == UNION {Range(answers[n]) : n \in WikiNames(heap[o])}
           h1 == IF song_genres # {}
                 THEN [heap EXCEPT ![o].genres = FilterSeq(<<GenreK>>, song_genres)]
                 ELSE heap
       IN ApplyGenres([h1 EXCEPT ![o].additional_data.wiki_update = TRUE],
                      Tail(oids), answers)

\* lines 237-255: genres, one lookup per simplified artist name
ScanWiki(t) ==
  /\ scan[t].pc = "wiki"
  /\ LET st == scan[t]
         songs_without_wiki ==
           Flatten([i \in 1..Len(st.updated) |->
             IF ~st.heap[st.updated[i]].additional_data.wiki_update
             THEN <<st.updated[i]>> ELSE <<>>])
         names == UNION {WikiNames(st.heap[o]) : o \in Range(songs_without_wiki)}
     IN SetScan(t, [st EXCEPT
          !.heap = ApplyGenres(st.heap, songs_without_wiki, World.genres),
          !.wiki_calls = names,
          !.unsaved = @ \cup {"wiki"},
          !.pc = "group"])
  /\ UNCHANGED <<disk, files, env, hashSeed, probes, service, stable, lastRead, counters>>

\* lines 257-302: albums, guessed loudness, artists
ScanGroup(t) ==
  /\ scan[t].pc = "group"
  /\ LET st == scan[t]
         album_objects == MapSongsToAlbums(st.song_paths, st.updated, st.heap, hashSeed)
         heap2 == GuessLoudness(album_objects, st.heap)
         artist_objects == ArtistObjects(st.updated, heap2)
     IN SetScan(t, [st EXCEPT
          !.albums = album_objects,
          !.heap = SetPopularity(artist_objects, album_objects, heap2),
          !.artists = MapAlbumsToArtists(artist_objects, album_objects),
          !.pc = "save_songs"])
  /\ UNCHANGED <<disk, files, env, hashSeed, probes, service, stable, lastRead, counters>>

\* lines 311-312: data/albums.json
OpenAlbums(t) ==
  /\ scan[t].pc = "save_albums"
  /\ albumsJson' = TornFile
  /\ SetScan(t, [scan[t] EXCEPT !.pc = "write_albums"])
  /\ UNCHANGED <<disk, songsJson, artistsJson, env, hashSeed, probes, service, stable,
                 lastRead, counters>>

DumpAlbums(t) ==
  /\ scan[t].pc = "write_albums"
  /\ albumsJson' = FileOf([i \in 1..Len(scan[t].albums) |->
                             album_to_dict(scan[t].albums[i], scan[t].heap)])
  /\ SetScan(t, [scan[t] EXCEPT !.pc = "save_artists"])
  /\ UNCHANGED <<disk, songsJson, artistsJson, env, hashSeed, probes, service, stable,
                 lastRead, counters>>

\* lines 314-318: data/artists.json, and the return of the new library
OpenArtists(t) ==
  /\ scan[t].pc = "save_artists"
  /\ artistsJson' = TornFile
  /\ SetScan(t, [scan[t] EXCEPT !.pc = "write_artists"])
  /\ UNCHANGED <<disk, songsJson, albumsJson, env, hashSeed, probes, service, stable,
                 lastRead, counters>>

DumpArtists(t) ==
  /\ scan[t].pc = "write_artists"
  /\ artistsJson' = FileOf([i \in 1..Len(scan[t].artists) |->
                              artist_to_dict(scan[t].artists[i], scan[t].heap)])
  /\ SetScan(t, [scan[t] EXCEPT
       !.pc = "returned",
       !.ret = SnapshotOf(scan[t].updated, scan[t].albums, scan[t].artists,
                          scan[t].heap)])
  /\ stable' = TRUE
  /\ UNCHANGED <<disk, songsJson, albumsJson, env, hashSeed, probes, service, lastRead,
                 counters>>


(***************************************************************************)
(* LibraryService                                                          *)
(***************************************************************************)
\* the guard of start_background_task
\* a start_background_task that creates a task whatever _task holds
TaskIsNoneAlways == TRUE

\* start_background_task: if self._task is None
TaskIsNone == task = 0

\* start_background_task: creates the _periodic_scan task once
StartTask ==
  /\ nStartCalls' = nStartCalls + 1
  /\ IF TaskIsNone
     THEN /\ task' = nStartCalls + 1
          /\ loops' = [loops EXCEPT ![nStartCalls + 1] = "start"]
     ELSE UNCHANGED <<task, loops>>
  /\ UNCHANGED <<disk, files, env, hashSeed, probes, catalog, lock, scan, stable,
                 lastRead, nFsChanges, nCrashes>>

\* the application's lifespan calls start_background_task at startup
Lifespan == nStartCalls = 0 /\ StartTask

\* start_background_task, called any number of times
start_background_task == nStartCalls < MaxStartCalls /\ StartTask

\* a _periodic_scan that takes the cache lock before the scan
LockAroundScan == TRUE

\* does _periodic_scan hold the cache lock around the scan?  (it does not:
\* "async with self._lock" comes after the awaited scan_library)
LockHeldDuringScan == FALSE

\* _periodic_scan: snapshot = await asyncio.to_thread(scan_library)
LoopStartScan(t) ==
  /\ loops[t] = "start"
  /\ scan[t].pc = "idle"
  /\ IF LockHeldDuringScan THEN lock = 0 /\ lock' = t ELSE lock' = lock
  /\ loops' = [loops EXCEPT ![t] = "scan"]
  /\ SetScan(t, [IdleScan EXCEPT !.pc = "begin"])
  /\ UNCHANGED <<disk, files, env, hashSeed, probes, catalog, task, stable,
                 lastRead, counters>>

\* a swap that replaces the triple and leaves the indices for later
LoopSwapSnapshotOnly(t) ==
  /\ loops[t] = "scan"
  /\ scan[t].pc = "returned"
  /\ lock \in {0, IF LockHeldDuringScan THEN t ELSE 0}
  /\ lock' = 0
  /\ library_snapshot' = scan[t].ret
  /\ loops' = [loops EXCEPT ![t] = "sleep"]
  /\ scan' = [scan EXCEPT ![t] = IdleScan]
  /\ UNCHANGED <<disk, files, env, hashSeed, probes, indices, task, stable,
                 lastRead, counters>>

\* _periodic_scan: the swap under the lock.  No await lies between acquiring
\* the free lock and releasing it, so the event loop runs it as one step.
LoopSwap(t) ==
  /\ loops[t] = "scan"
  /\ scan[t].pc = "returned"
  /\ lock \in {0, IF LockHeldDuringScan THEN t ELSE 0}
  /\ lock' = 0
  /\ library_snapshot' = scan[t].ret
  /\ song_map' = SongMapOf(scan[t].ret.songs)
  /\ cover_map' = CoverMapOf(scan[t].ret.songs)
  /\ album_map' = AlbumMapOf(scan[t].ret.albums)
  /\ artist_map' = ArtistMapOf(scan[t].ret.artists)
  /\ loops' = [loops EXCEPT ![t] = "sleep"]
  /\ SetScan(t, IdleScan)
  /\ UNCHANGED <<disk, files, env, hashSeed, probes, task, stable, lastRead,
                 counters>>

\* _periodic_scan: an exception of scan_library ends the coroutine
LoopFail(t) ==
  /\ loops[t] = "scan"
  /\ scan[t].pc = "raised"
  /\ loops' = [loops EXCEPT ![t] = "failed"]
  /\ lock' = IF lock = t THEN 0 ELSE lock
  /\ SetScan(t, IdleScan)
  /\ UNCHANGED <<disk, files, env, hashSeed, probes, catalog, task, stable,
                 lastRead, counters>>

\* _periodic_scan: await asyncio.sleep(600) is over
LoopWake(t) ==
  /\ loops[t] = "sleep"
  /\ loops' = [loops EXCEPT ![t] = "start"]
  /\ UNCHANGED <<disk, files, env, hashSeed, probes, catalog, task, lock, scan,
                 stable, lastRead, counters>>

ScanRunning(t) == scan[t].pc # "idle"

\* get_snapshot (and the other readers): under the lock, the current triple
get_snapshot ==
  /\ lock = 0
  /\ lastRead' = [during |-> \E t \in TaskIds : ScanRunning(t),
                  result |-> library_snapshot]
  /\ lastRead' # lastRead
  /\ UNCHANGED <<disk, files, env, hashSeed, probes, service, scan, stable, counters>>

(***************************************************************************)
(* The query handlers of LibraryService.  Each runs under the cache lock   *)
(* without an await inside, so it is one step; what it returns is kept in  *)
(* reply until the caller has taken it.  None is the empty tuple and a     *)
(* returned object x is <<x>>.                                             *)
(***************************************************************************)
None == <<>>

\* the first element of s that lies in S ("for x in s: if ...: return x")
FirstIn(s, S) == IF FilterSeq(s, S) = <<>> THEN None ELSE <<Head(FilterSeq(s, S))>>

\* a lookup that hands out the first entity when nothing matches
FirstSongOrDefault(songs, song_hash) ==
  IF songs = <<>> THEN None
  ELSE IF FirstIn(songs, {x \in Range(songs) : get_hash(x) = song_hash}) = None
       THEN <<songs[1]>>
       ELSE FirstIn(songs, {x \in Range(songs) : get_hash(x) = song_hash})

\* has_song, lines 58-63
AnySongWithHash(songs, song_hash) ==
  \E i \in 1..Len(songs) : get_hash(songs[i]) = song_hash

\* get_song, lines 65-70 (a Song object is always truthy)
FirstSongWithHash(songs, song_hash) ==
  FirstIn(songs, {x \in Range(songs) : get_hash(x) = song_hash})

\* get_album, lines 109-114
FirstAlbumWithHash(albums, album_hash) ==
  FirstIn(albums, {x \in Range(albums) : x.hash = album_hash})

\* get_artist, lines 116-121
FirstArtistNamed(artists, artist_name) ==
  FirstIn(artists, {x \in Range(artists) : x.name = artist_name})

\* get_song_by_metadata, lines 81-97: metadata is a dict, a key it lacks
\* reads as None
MetadataMatches(metadata, song) ==
  /\ "artist" \in DOMAIN metadata => IsSubstring(metadata.artist, get_artists(song))
  /\ "album" \in DOMAIN metadata => song.album = metadata.album
  /\ "title" \in DOMAIN metadata => song.title = metadata.title
  /\ "track_number" \in DOMAIN metadata => song.track_number = metadata.track_number

FirstSongByMetadata(songs, metadata) ==
  FirstIn(songs, {x \in Range(songs) : MetadataMatches(metadata, x)})

DigitChars == <<"0", "1", "2", "3", "4", "5", "6", "7", "8", "9">>

\* str(n) for n >= 0
RECURSIVE StrOfInt(_)
StrOfInt(n) ==
  IF n < 10 THEN <<DigitChars[n + 1]>>
  ELSE StrOfInt(n \div 10) \o <<DigitChars[(n % 10) + 1]>>

\* f"{song.get_artists}": the method is not called, so the text is the repr of
\* the bound method, "<bound method Song.get_artists of <modules.model_song.Song
\* object at 0x..>>" (the address stands for whatever the object's address is)
BoundMethodRepr ==
  <<"<", "b", "o", "u", "n", "d", " ", "m", "e", "t", "h", "o", "d", " ",
    "S", "o", "n", "g", ".", "g", "e", "t", "_", "a", "r", "t", "i", "s",
    "t", "s", " ", "o", "f", " ", "<", "m", "o", "d", "u", "l", "e", "s",
    ".", "m", "o", "d", "e", "l", "_", "s", "o", "n", "g", ".", "S", "o",
    "n", "g", " ", "o", "b", "j", "e", "c", "t", " ", "a", "t", " ", "0",
    "x", "1", ">", ">">>

\* str.split(): the words between runs of blanks
Words(s) == FilterSeq(SplitChars(s, {" "}), Range(SplitChars(s, {" "})) \ {<<>>})

\* search_song, line 103
SongString(song) ==
  BoundMethodRepr \o <<" ", "-", " ">> \o song.title \o <<" ", "(">>
    \o StrOfInt(song.track_number) \o <<" ", "o", "n", " ">> \o song.album \o <<")">>

MinOf(a, b) == IF a < b THEN a ELSE b

\* search_song, line 104: the score as <<numerator, denominator>>
SearchScore(song, search_term) ==
  LET a == Range(Words(Lower(SongString(song))))
      b == Range(Words(Lower(search_term)))
  IN <<Cardinality(a \cap b), MinOf(1, Cardinality(a \cup b))>>

\* sorted(matches, key=lambda x: x[0], reverse=True): stable, so equal scores
\* keep their order; the scores of line 104 have the denominator 1
RECURSIVE SortByScoreDesc(_)
SortByScoreDesc(matches) ==
  IF matches = <<>> THEN <<>>
  ELSE LET top == MaxOf({matches[i].score : i \in 1..Len(matches)})
           k == CHOOSE i \in 1..Len(matches) :
                  matches[i].score = top /\ \A j \in 1..(i - 1) : matches[j].score # top
       IN <<matches[k]>>
            \o SortByScoreDesc(SubSeq(matches, 1, k - 1) \o SubSeq(matches, k + 1, Len(matches)))

\* search_song, lines 99-107
SearchSongs(songs, search_term) ==
  LET scored == [i \in 1..Len(songs) |->
                   LET jaccard_value == SearchScore(songs[i], search_term)
                   IN [score |-> jaccard_value[1] \div jaccard_value[2],
                       song |-> songs[i]]]
      matches == FilterSeq(scored, {m \in Range(scored) : m.score > 0})
  IN [i \in 1..Len(matches) |-> SortByScoreDesc(matches)[i].song]

\* what the handlers are asked for
SongHashArgs == {Sha256OfSong(NewSong(PXA, k, 1)) : k \in 1..Len(TagKinds)}
AlbumHashArgs == {<<"sha256", DirName(p)>> : p \in AllPaths}
ArtistNameArgs == {NX, NB, NC}
CommaBlank == <<",", " ">>
MetadataArgs ==
  { [artist |-> NX], [artist |-> NC], [artist |-> CommaBlank],
    [title |-> TS2], [album |-> AY, track_number |-> 2],
    [artist |-> NB, title |-> TS1] }
SearchTermArgs == {NX, TS1, <<"m", "e", "t", "h", "o", "d">>, NB \o <<" ">> \o TS2}

Answer(op, arg, result) ==
  /\ lock = 0
  /\ reply = NoReply
  /\ reply' = [op |-> op, arg |-> arg, result |-> result]
  /\ UNCHANGED <<disk, files, env, hashSeed, ent, service, scan, stable, lastRead,
                 counters>>

has_song ==
  \E h \in SongHashArgs :
    Answer("has_song", h, AnySongWithHash(library_snapshot.songs, h))

get_song ==
  \E h \in SongHashArgs :
    Answer("get_song", h, FirstSongWithHash(library_snapshot.songs, h))

get_album ==
  \E h \in AlbumHashArgs :
    Answer("get_album", h, FirstAlbumWithHash(library_snapshot.albums, h))

get_artist ==
  \E n \in ArtistNameArgs :
    Answer("get_artist", n, FirstArtistNamed(library_snapshot.artists, n))

get_song_by_metadata ==
  \E m \in MetadataArgs :
    Answer("get_song_by_metadata", m, FirstSongByMetadata(library_snapshot.songs, m))

search_song ==
  \E term \in SearchTermArgs :
    Answer("search_song", term, SearchSongs(library_snapshot.songs, term))

\* main.get_cover_art for a request with a song hash: the cover index is
\* read with the song's hash as key
CoverArtResponse(song_hash) ==
  IF ~AnySongWithHash(library_snapshot.songs, song_hash)
  THEN [status |-> 404, detail |-> "Song not found in library", file |-> <<>>]
  ELSE LET file_path == Get(cover_map, song_hash, <<>>)
       IN IF file_path = <<>>
          THEN [status |-> 404, detail |-> "Cover art not found", file |-> <<>>]
          ELSE [status |-> 200, detail |-> "", file |-> file_path]

get_cover_art ==
  \E h \in SongHashArgs : Answer("get_cover_art", h, CoverArtResponse(h))

\* the caller has taken the returned value
Respond ==
  /\ reply # NoReply
  /\ reply' = NoReply
  /\ UNCHANGED <<disk, files, env, hashSeed, ent, service, scan, stable, lastRead,
                 counters>>

(***************************************************************************)
(* The environment: the music directory changes between passes, a catalog  *)
(* file is removed, the process is killed and started again.               *)
(***************************************************************************)
\* a pass has ended and none is running
BetweenPasses ==
  /\ \E t \in TaskIds : loops[t] \in {"sleep", "failed"}
  /\ \A t \in TaskIds : ~ScanRunning(t)

\* one file is added, deleted or moved (between two passes)
FsChange ==
  /\ nFsChanges < MaxFsChanges
  /\ BetweenPasses
  /\ \E d \in Disks :
       /\ \/ \E p \in AllPaths :
               /\ d = [disk EXCEPT ![p] = d[p]]
               /\ (disk[p] = 0) # (d[p] = 0)
          \/ \E p, q \in AllPaths :
               /\ disk[p] # 0 /\ disk[q] = 0
               /\ d = [disk EXCEPT ![p] = 0, ![q] = disk[p]]
       /\ disk' = d
  /\ nFsChanges' = nFsChanges + 1
  /\ stable' = FALSE
  /\ UNCHANGED <<files, env, hashSeed, probes, service, scan, lastRead, nCrashes,
                 nStartCalls>>

\* data/albums.json is removed by hand (between two passes)
RemoveAlbumsFile ==
  /\ nFsChanges < MaxFsChanges
  /\ BetweenPasses
  /\ albumsJson.st = "ok"
  /\ albumsJson' = AbsentFile
  /\ nFsChanges' = nFsChanges + 1
  /\ stable' = FALSE
  /\ UNCHANGED <<disk, songsJson, artistsJson, env, hashSeed, probes, service, scan,
                 lastRead, nCrashes, nStartCalls>>

\* the process dies at any point and is started again: memory is lost, the
\* files stay as they are, the new process has its own string hash seed
CrashRestart ==
  /\ nCrashes < MaxCrashes
  /\ nCrashes' = nCrashes + 1
  /\ hashSeed' \in {1, 2}
  /\ library_snapshot' = EmptySnapshot
  /\ song_map' = SongMapOf(<<>>)
  /\ cover_map' = CoverMapOf(<<>>)
  /\ album_map' = AlbumMapOf(<<>>)
  /\ artist_map' = ArtistMapOf(<<>>)
  /\ task' = 0
  /\ lock' = 0
  /\ loops' = [t \in TaskIds |-> "none"]
  /\ scan' = [t \in TaskIds |-> IdleScan]
  /\ stable' = FALSE
  /\ nStartCalls' = 0
  /\ UNCHANGED <<disk, files, env, probes, lastRead, nFsChanges>>

ScanStep(t) ==
  \/ ScanBegin(t) \/ ScanLoad(t) \/ ScanDiff(t) \/ OpenSongs(t) \/ DumpSongs(t)
  \/ ScanLoudness(t) \/ ScanLastfm(t) \/ ScanWiki(t) \/ ScanGroup(t)
  \/ OpenAlbums(t) \/ DumpAlbums(t) \/ OpenArtists(t) \/ DumpArtists(t)

LoopStep(t) == LoopStartScan(t) \/ LoopSwap(t) \/ LoopFail(t) \/ LoopWake(t)

Next ==
  \/ Lifespan
  \/ \E t \in TaskIds : LoopStep(t)
  \/ \E t \in TaskIds : ScanStep(t)
  \/ FsChange
  \/ RemoveAlbumsFile
  \/ CrashRestart

Spec == Init /\ [][Next]_vars

\* The service with its request handlers: start_background_task is called
\* any number of times and get_snapshot at any moment; the music directory
\* and the process stay as they are.
SvcNext ==
  \/ start_background_task
  \/ get_snapshot
  \/ \E t \in TaskIds : LoopStep(t)
  \/ \E t \in TaskIds : ScanStep(t)

SvcSpec == Init /\ [][SvcNext]_vars

\* The service answering queries while it scans a configured music directory
QueryInit == Init /\ env.music_dir /\ env.lastfm_key

QueryNext ==
  \/ reply = NoReply /\ Lifespan
  \/ reply = NoReply /\ \E t \in TaskIds : LoopStep(t)
  \/ reply = NoReply /\ \E t \in TaskIds : ScanStep(t)
  \/ has_song \/ get_song \/ get_album \/ get_artist
  \/ get_song_by_metadata \/ search_song \/ get_cover_art
  \/ Respond

QuerySpec == QueryInit /\ [][QueryNext]_vars


(***************************************************************************)
(* Song, Album and Artist objects worked on by themselves: a Song whose    *)
(* fields are assigned and whose hash is asked for, a Song written to a    *)
(* record and read back, an Album and an Artist that songs are added to.   *)
(***************************************************************************)
AZ == <<"Z">>
TS3 == <<"s", "3">>
TS4 == <<"s", "4">>
TS5 == <<"s", "5">>

\* the Song objects that are added to the album or artist: loaded from
\* records, as load_library does
Shelf ==
  << from_dict([title |-> TS1, album |-> AY, album_artist |-> NX,
                other_artists |-> <<NX>>, disc_number |-> 1, track_number |-> 2,
                play_count |-> 3, release_year |-> 2001]),
     from_dict([title |-> TS2, album |-> AY, album_artist |-> NB,
                other_artists |-> <<NB, NC>>, disc_number |-> 1, track_number |-> 1,
                play_count |-> 1, release_year |-> 1999]),
     from_dict([title |-> TS3, album |-> AZ, album_artist |-> NB,
                disc_number |-> 2, track_number |-> 1]),
     from_dict([title |-> TS4, album |-> UnknownName, album_artist |-> NX,
                disc_number |-> 1, track_number |-> 3,
                play_count |-> 2, release_year |-> 2005]),
     from_dict([title |-> TS5, album |-> AY, album_artist |-> UnknownName,
                disc_number |-> 1, track_number |-> 1, play_count |-> 1]) >>

\* the values that are assigned to the fields of a Song
FieldValues ==
  [file_path |-> {PXA, PYA},
   title |-> {TS1, TS2},
   album |-> {AY, AZ},
   album_artist |-> {NX, NB},
   other_artists |-> {<<>>, <<NC>>},
   disc_number |-> {1, 2},
   track_number |-> {1, 2}]

\* artist names as tags carry them: one in capitals, one naming two artists
NBAND == <<"B", "A", "N", "D">>
NBC == <<"B", ",", " ", "C">>
ArtistNames == {NX, NB, NBAND, NBC}

\* the songs an artist is compared with
TaggedSongs ==
  {from_dict([title |-> TS1, album_artist |-> a, other_artists |-> o]) :
     a \in ArtistNames, o \in {<<>>, <<NB>>}}

\* tags of compilation tracks: the album artist tag says "Various Artists",
\* in capitals or in lower case, and the artist tag names the performer
VariousTagKinds ==
  { [title |-> TS1, album |-> AY, album_artist |-> va, others |-> {va, NB},
     disc_number |-> 1, track_number |-> 1, genres |-> <<>>, release_year |-> 0,
     duration |-> 200] :
      va \in {VariousArtistsName, Lower(VariousArtistsName)} }

\* the songs of a library that is grouped: up to three songs of the shelf, each
\* at a path of its own
ShelfPicks ==
  {<<i>> : i \in 1..Len(Shelf)}
  \cup {p \in (1..Len(Shelf)) \X (1..Len(Shelf)) : p[1] # p[2]}
  \cup {<<1, 2, 3>>, <<3, 2, 1>>, <<1, 4, 2>>}

SongsAt(pick) == [i \in 1..Len(pick) |-> [Shelf[pick[i]] EXCEPT !.file_path = ListOrder[i]]]

\* the songs that are compared: two paths, two albums, two album artists,
\* genre and tag lists that are empty, equal, nested or disjoint, and release
\* years up to eleven years apart
GenreLists == {<<>>, <<GenreK>>, <<GenreK, GenreRP>>, <<GenreRP>>}

ComparedSongs ==
  {[from_dict(<<>>) EXCEPT
      !.file_path = p, !.album = al, !.album_artist = a, !.genres = g,
      !.lastfm_tags = tg, !.release_year = y] :
     p \in {PXA, PXB}, al \in {AY, AZ}, a \in {NX, NB}, g \in GenreLists,
     tg \in {<<>>, <<"tag">>}, y \in {0, 1999, 2010}}

\* the pools recommendations are drawn from: three songs of a catalog, each
\* by one of two album artists, shorter or longer than two minutes, and with
\* or without a popularity
PoolSize == Len(ListOrder)

PoolSong(i, c) ==
  [from_dict(<<>>) EXCEPT
     !.file_path = ListOrder[i], !.album = AY, !.album_artist = c[1],
     !.genres = <<GenreK>>, !.duration = c[2], !.popularity = c[3]]

Pools ==
  {[i \in 1..PoolSize |-> PoolSong(i, c[i])] :
     c \in [1..PoolSize -> {NX, NB} \X {100, 200} \X {NoPopularity, RatNorm(1, 2)}]}

\* what the genre lookups can answer for the artist names: nothing, or a genre
GenreAnswers == [DOMAIN World.genres -> {<<>>, <<GenreK>>}]

\* libraries of two songs in two directories
FolderLibraries ==
  {[i \in 1..2 |-> [Shelf[i] EXCEPT !.file_path = ps[i]]] :
     ps \in {q \in {PXA, PYA, PXYA, PUXB} \X {PXA, PYA, PXYA, PUXB} : q[1] # q[2]}}

(***************************************************************************)
(* UserService.  Emails, passwords and keys are strings, "" is the missing *)
(* value; uuid4().hex is a key no session has yet; sha256(salt + password) *)
(* is the pair of the two.                                                 *)
(***************************************************************************)
RegistrationKey == "pymulise"
SessionKeys == {"k1", "k2"}
SessionIds == {"i1", "i2"}
Salts == {"s1"}

\* UserService._hash_password
hash_password(password, salt) == <<"sha256", salt, password>>

\* UserService.__init__ with no users file
NewUserService == [users |-> <<>>, sessions_data |-> <<>>, session_ids |-> <<>>,
                   users_file |-> <<>>]

\* d[k] = v, and d.pop(k, None), for a dict held as a function
Put(d, k, v) == [x \in DOMAIN d \cup {k} |-> IF x = k THEN v ELSE d[x]]
Pop(d, k) == [x \in DOMAIN d \ {k} |-> d[x]]

\* UserService.register, with _save_users
register(svc, registration_key, email, username, password, salt) ==
  IF registration_key # RegistrationKey
  THEN [svc |-> svc, raised |-> "ValueError: Invalid registration key"]
  ELSE IF email = "" \/ username = "" \/ password = ""
  THEN [svc |-> svc, raised |-> "ValueError: Missing required fields"]
  ELSE IF email \in DOMAIN svc.users
  THEN [svc |-> svc, raised |-> "ValueError: Email already registered"]
  ELSE LET users == Put(svc.users, email,
                        [username |-> username,
                         password_hash |-> hash_password(password, salt),
                         salt |-> salt])
       IN [svc |-> [svc EXCEPT !.users = users, !.users_file = users],
           raised |-> "none"]

\* a login that accepts any password of a registered email
login_without_password(svc, email, password, session_key, session_id) ==
  IF email \notin DOMAIN svc.users
  THEN [svc |-> svc, raised |-> "ValueError: Invalid credentials", key |-> ""]
  ELSE [svc |-> [svc EXCEPT
                   !.sessions_data = Put(@, session_key, [email |-> email]),
                   !.session_ids = Put(@, session_id, session_key)],
        raised |-> "none", key |-> session_key]

\* UserService.login: session_key and session_id are the two uuid4 values
login(svc, email, password, session_key, session_id) ==
  IF email \notin DOMAIN svc.users
  THEN [svc |-> svc, raised |-> "ValueError: Invalid credentials", key |-> ""]
  ELSE IF hash_password(password, svc.users[email].salt) # svc.users[email].password_hash
  THEN [svc |-> svc, raised |-> "ValueError: Invalid credentials", key |-> ""]
  ELSE [svc |-> [svc EXCEPT
                   !.sessions_data = Put(@, session_key, [email |-> email]),
                   !.session_ids = Put(@, session_id, session_key)],
        raised |-> "none", key |-> session_key]

\* UserService.logout
logout(svc, session_key) == [svc EXCEPT !.sessions_data = Pop(@, session_key)]

\* UserService.get_user_by_session
get_user_by_session(svc, session_key) ==
  IF session_key \notin DOMAIN svc.sessions_data THEN None
  ELSE LET email == svc.sessions_data[session_key].email
       IN IF email \in DOMAIN svc.users THEN <<svc.users[email]>> ELSE None

(***************************************************************************)
(* PlaybackChannel and PlaybackModule.  listeners maps an email to its     *)
(* websocket, start_time is None or <<the time it was set>>, a message is  *)
(* the dict the client sent.                                               *)
(***************************************************************************)
\* PlaybackChannel.__init__
NewPlaybackChannel(owner_email, playlist) ==
  [owner |-> owner_email, playlist |-> playlist, current_index |-> 0,
   start_time |-> None, position |-> 0, listeners |-> <<>>]

\* PlaybackChannel.join
join(channel, email, ws) == [channel EXCEPT !.listeners = Put(@, email, ws)]

\* PlaybackChannel.leave
leave(channel, email) ==
  IF email \in DOMAIN channel.listeners
  THEN [channel EXCEPT !.listeners = Pop(@, email)]
  ELSE channel

\* PlaybackChannel.handle_song_finished
handle_song_finished(channel, email) ==
  IF email = channel.owner
  THEN [channel EXCEPT !.current_index = @ + 1, !.position = 0,
                       !.start_time = None]
  ELSE channel

\* PlaybackChannel.handle_message; now is time.time()
handle_message(channel, email, data, now) ==
  IF data.type = "position_update"
  THEN [channel EXCEPT !.position = data.position, !.start_time = <<now>>]
  ELSE IF data.type = "song_finished"
  THEN handle_song_finished(channel, email)
  ELSE channel

\* what a client can send
Messages == {[type |-> "position_update", position |-> 5],
             [type |-> "song_finished", position |-> 0],
             [type |-> "chat", position |-> 0]}

\* users.json as _load_users finds it: no file, or one user stored by an
\* earlier register, or one user whose record also names the email
StoredUser == [username |-> "u", password_hash |-> hash_password("p", "s1"),
               salt |-> "s1"]
StoredUserWithEmail == [username |-> "u", password_hash |-> hash_password("p", "s1"),
                        salt |-> "s1", email |-> "a"]
UsersFiles == {[x \in {"a"} |-> StoredUser], [x \in {"a"} |-> StoredUserWithEmail]}

NoConnection == [state |-> "none", owner_id |-> "", session_key |-> "",
                 email |-> "", code |-> 0]

\* playback_ws up to its receive loop: the connection it leaves behind and
\* the channels of the playback module
Connect(svc, channels, owner_id, song_id, session_key) ==
  LET found == get_user_by_session(svc, session_key)
      conn == [NoConnection EXCEPT !.owner_id = owner_id,
                                   !.session_key = session_key]
  IN IF found = None
     THEN [conn |-> [conn EXCEPT !.state = "closed", !.code = 4401],
           channels |-> channels]
     ELSE LET user == found[1]
              create == owner_id \notin DOMAIN channels
          IN IF create /\ ~(session_key = owner_id /\ song_id # "")
             THEN [conn |-> [conn EXCEPT !.state = "closed", !.code = 4404],
                   channels |-> channels]
             ELSE LET chans == IF create
                               THEN Put(channels, owner_id,
                                        NewPlaybackChannel(owner_id, <<song_id>>))
                               ELSE channels
                  IN IF "email" \notin DOMAIN user
                     THEN [conn |-> [conn EXCEPT !.state = "KeyError"],
                           channels |-> chans]
                     ELSE [conn |-> [conn EXCEPT !.state = "open",
                                                 !.email = user.email],
                           channels |-> [chans EXCEPT ![owner_id] =
                                           join(@, user.email, session_key)]]

(***************************************************************************)
(* The routes behind require_session.  A request is the session key of its *)
(* JSON body, the one of its query and its email query parameter ("" when  *)
(* it has none); an answer is the status and whether the handler ran.      *)
(***************************************************************************)
DEBUG_SKIP == TRUE

\* the wrapper that require_session(user_service) makes of a route handler
require_session(svc, request) ==
  IF DEBUG_SKIP
  THEN [status |-> 200, ran |-> TRUE, email |-> "debug@example.com"]
  ELSE LET session_key == IF request.body_key # "" THEN request.body_key
                          ELSE request.query_key
       IN IF session_key = ""
          THEN [status |-> 401, ran |-> FALSE, email |-> ""]
          ELSE LET user == get_user_by_session(svc, session_key)
               IN IF user = None
                  THEN [status |-> 401, ran |-> FALSE, email |-> ""]
                  ELSE IF "email" \notin DOMAIN user[1]
                  THEN [status |-> 500, ran |-> FALSE, email |-> ""]
                  ELSE [status |-> 200, ran |-> TRUE, email |-> user[1].email]

\* the handler that @app.post("/get_songs") registered: the decorator list is
\* applied bottom up, so app.post has registered get_songs itself and the
\* wrapper made afterwards is only the module's name get_songs; the
\* registered function takes email from the query and needs it
get_songs_route(svc, request) ==
  IF request.email = ""
  THEN [status |-> 422, ran |-> FALSE, email |-> ""]
  ELSE [status |-> 200, ran |-> TRUE, email |-> request.email]

NoRequest == [asked |-> FALSE, body_key |-> "", query_key |-> "", email |-> "",
              status |-> 0, ran |-> FALSE]

(***************************************************************************)
(* Transcoding.  A request is (song_hash, target_format, target_bitrate,   *)
(* volume_change) with target_bitrate 0 for None; the cache directory maps *)
(* an output path to the request whose audio the file holds.               *)
(***************************************************************************)
\* the source files, as _get_original_format and _get_original_bitrate read
\* them: mp3 at 320 kbit/s
Original == [format |-> "mp3", bitrate |-> 320]

TranscodeRequests ==
  [song_hash : {"h1", "h2"}, target_format : {"mp3", "ogg"},
   target_bitrate : {0, 128}, volume_change : {0, -3}]

\* Transcoding._build_output_path
build_output_path(t) ==
  <<"./transcode_cache", t.song_hash,
    IF t.target_bitrate # 0 THEN <<"k", t.target_bitrate>> ELSE <<"default", 0>>,
    t.target_format>>

\* Transcoding.should_transcode
should_transcode(t) ==
  \/ Original.format # t.target_format
  \/ t.target_bitrate # 0 /\ t.target_bitrate + 10 < Original.bitrate

\* Transcoding.run on the cache directory: ffmpeg_ok is ffmpeg's return code
\* being 0
run(cache_dir, t, ffmpeg_ok) ==
  LET output_file == build_output_path(t)
  IN IF output_file \in DOMAIN cache_dir
     THEN [cache_dir |-> cache_dir, raised |-> "none", path |-> output_file,
           wrote |-> "nothing"]
     ELSE IF ~should_transcode(t)
     THEN [cache_dir |-> Put(cache_dir, output_file, t), raised |-> "none",
           path |-> output_file, wrote |-> "copy"]
     ELSE IF ~ffmpeg_ok
     THEN [cache_dir |-> cache_dir, raised |-> "RuntimeError", path |-> <<>>,
           wrote |-> "nothing"]
     ELSE [cache_dir |-> Put(cache_dir, output_file, t), raised |-> "none",
           path |-> output_file, wrote |-> "encoding"]

\* the objects at the start: Song() and Song(file_path) for a song, and a new
\* Album and Artist
EntityInputs ==
  {[kind |-> "song", n |-> 0, before |-> x, song |-> x] :
     x \in {from_dict(<<>>)} \cup {NewSong(PXA, k, 1) : k \in 1..Len(TagKinds)}}
  \cup
  {[kind |-> "record", n |-> 0, data |-> to_dict(x), song |-> x, back |-> x] :
     x \in {NewSong(PXA, k, 1) : k \in 1..Len(TagKinds)}}
  \cup
  {[kind |-> "album", n |-> 0, album |-> NewAlbum(DirName(PXA)), added |-> <<>>],
   [kind |-> "artist", n |-> 0, artist |-> NewArtist(NX), added |-> <<>>]}
  \cup
  {[kind |-> "artist_of", n |-> 0, artist |-> NewArtist(a), song |-> from_dict(<<>>),
    result |-> FALSE] : a \in ArtistNames}
  \cup
  {[kind |-> "compilation", n |-> 0, song |-> SongOfTags(PXA, t, 1),
    lastfm |-> <<>>, wiki |-> {}, grouped |-> <<>>] : t \in VariousTagKinds}
  \cup
  {[kind |-> "library", n |-> 0, heap |-> SongsAt(pick), albums |-> <<>>,
    artists |-> <<>>] : pick \in ShelfPicks}
  \cup
  {[kind |-> "library", n |-> 0, heap |-> h, albums |-> <<>>, artists |-> <<>>] :
     h \in FolderLibraries}
  \cup
  {[kind |-> "pair", n |-> 0, a |-> from_dict(<<>>), b |-> from_dict(<<>>),
    aa |-> RatZero, ab |-> RatZero, ba |-> RatZero]}
  \cup
  {[kind |-> "genres", n |-> 0, before |-> NewSong(PXA, k, 1),
    after |-> NewSong(PXA, k, 1), answers |-> a] :
     k \in 1..Len(TagKinds), a \in GenreAnswers}
  \cup
  {[kind |-> "users", n |-> 0, svc |-> NewUserService, was |-> NewUserService,
    call |-> [op |-> "none"], passwords |-> <<>>, valid |-> {}]}
  \cup
  {[kind |-> "channel", n |-> 0,
    channel |-> NewPlaybackChannel("a", <<"h1", "h2">>),
    was |-> NewPlaybackChannel("a", <<"h1", "h2">>),
    call |-> [op |-> "none", email |-> "", type |-> ""]]}
  \cup
  {[kind |-> "ws", n |-> 0, svc |-> [NewUserService EXCEPT !.users = users],
    channels |-> <<>>, conn |-> NoConnection, http |-> NoRequest] :
     users \in UsersFiles}
  \cup
  {[kind |-> "cache", n |-> 0, cache_dir |-> <<>>, served |-> {},
    call |-> [asked |-> FALSE]]}
  \cup
  {[kind |-> "pool", n |-> 0, pool |-> p, input |-> s, number |-> k,
    result |-> [raised |-> "none", songs |-> <<>>]] :
     p \in Pools, s \in 1..PoolSize, k \in 1..(PoolSize - 1)}

EntityInit ==
  /\ disk = [p \in AllPaths |-> 0]
  /\ songsJson = AbsentFile
  /\ albumsJson = AbsentFile
  /\ artistsJson = AbsentFile
  /\ env = [music_dir |-> TRUE, lastfm_key |-> TRUE]
  /\ hashSeed = 1
  /\ library_snapshot = EmptySnapshot
  /\ song_map = SongMapOf(<<>>)
  /\ cover_map = CoverMapOf(<<>>)
  /\ album_map = AlbumMapOf(<<>>)
  /\ artist_map = ArtistMapOf(<<>>)
  /\ task = 0
  /\ lock = 0
  /\ loops = [t \in TaskIds |-> "none"]
  /\ scan = [t \in TaskIds |-> IdleScan]
  /\ stable = FALSE
  /\ lastRead = [during |-> FALSE, result |-> EmptySnapshot]
  /\ reply = NoReply
  /\ ent \in EntityInputs
  /\ nFsChanges = 0
  /\ nCrashes = 0
  /\ nStartCalls = 0

EntityStep(new) ==
  /\ ent.n < MaxOps
  /\ ent' = [new EXCEPT !.n = ent.n + 1]
  /\ UNCHANGED <<disk, files, env, hashSeed, reply, service, scan, stable, lastRead,
                 counters>>

\* song.<field> = value
SongAssign ==
  /\ ent.kind = "song"
  /\ \E f \in DOMAIN FieldValues : \E v \in FieldValues[f] :
       /\ ent.song[f] # v
       /\ EntityStep([ent EXCEPT !.before = ent.song, !.song[f] = v])

\* song.get_hash()
SongGetHash ==
  /\ ent.kind = "song"
  /\ ent.song.hash = NoHash
  /\ EntityStep([ent EXCEPT !.song = WithHash(ent.song)])

\* a field of the Song is assigned before it is written out
RecordAssign ==
  /\ ent.kind = "record"
  /\ \E f \in {"title", "track_number"} : \E v \in FieldValues[f] :
       /\ ent.song[f] # v
       /\ EntityStep([ent EXCEPT !.song[f] = v,
                                 !.data = to_dict([ent.song EXCEPT ![f] = v]),
                                 !.back = from_dict(to_dict([ent.song EXCEPT ![f] = v]))])

\* Song.from_dict(song.to_dict())
SongRoundTrip ==
  /\ ent.kind = "record"
  /\ EntityStep([ent EXCEPT !.data = to_dict(ent.song),
                            !.back = from_dict(to_dict(ent.song))])

\* Song.from_dict of the record without one of its keys
SongFromPartial ==
  /\ ent.kind = "record"
  /\ \E k \in PersistedKeys :
       LET partial == [j \in PersistedKeys \ {k} |-> to_dict(ent.song)[j]]
       IN EntityStep([ent EXCEPT !.data = partial, !.back = from_dict(partial)])

\* album.add_song(song), for a song not yet in the album
AlbumAddSong ==
  /\ ent.kind = "album"
  /\ \E oid \in DOMAIN Shelf :
       /\ oid \notin Range(ent.added)
       /\ EntityStep([ent EXCEPT !.album = add_song(ent.album, oid, Shelf),
                                 !.added = Append(ent.added, oid)])

\* artist.add_song(song); the grouping step calls it once for each name of
\* the song that leads to the artist, so also again for the same song
ArtistAddSong ==
  /\ ent.kind = "artist"
  /\ \E oid \in DOMAIN Shelf :
       EntityStep([ent EXCEPT !.artist = artist_add_song(ent.artist, oid, Shelf),
                              !.added = Append(ent.added, oid)])

\* artist.is_artist_of(song)
ArtistIsArtistOf ==
  /\ ent.kind = "artist_of"
  /\ \E s \in TaggedSongs :
       EntityStep([ent EXCEPT !.song = s, !.result = is_artist_of(ent.artist, s)])

\* the enrichment and grouping steps of scan_library for one song: the artists
\* of its Last.fm lookups, the names of its genre lookups, the Artist objects
EnrichAndGroup ==
  /\ ent.kind = "compilation"
  /\ ent.n = 0
  /\ EntityStep([ent EXCEPT
         !.lastfm = LastfmArtists(ent.song),
         !.wiki = WikiNames(ent.song),
         !.grouped = ArtistObjects(<<1>>, <<ent.song>>)])

\* the grouping steps of scan_library over the songs of a library: albums by
\* directory, guessed loudness, artists, popularity, albums of the artists
GroupLibrary ==
  /\ ent.kind = "library"
  /\ ent.n = 0
  /\ LET updated == [i \in 1..Len(ent.heap) |-> i]
         song_paths == [i \in 1..Len(ent.heap) |-> ent.heap[i].file_path]
         album_objects == MapSongsToAlbums(song_paths, updated, ent.heap, hashSeed)
         heap2 == GuessLoudness(album_objects, ent.heap)
         artist_objects == ArtistObjects(updated, heap2)
     IN EntityStep([ent EXCEPT
          !.heap = SetPopularity(artist_objects, album_objects, heap2),
          !.albums = album_objects,
          !.artists = MapAlbumsToArtists(artist_objects, album_objects)])

\* calc_song_similarity(a, a), (a, b) and (b, a) for two songs
CompareSongs ==
  /\ ent.kind = "pair"
  /\ ent.n = 0
  /\ \E a, b \in ComparedSongs :
       EntityStep([ent EXCEPT !.a = a, !.b = b,
                              !.aa = calc_song_similarity(a, a),
                              !.ab = calc_song_similarity(a, b),
                              !.ba = calc_song_similarity(b, a)])

\* song_recommendations(song, pool, number=N)
Recommend ==
  /\ ent.kind = "pool"
  /\ ent.n = 0
  /\ \E r \in song_recommendations(ent.input, ent.pool, ent.number) :
       EntityStep([ent EXCEPT !.result = r])

\* the genre step of scan_library for one song without wiki_update
EnrichGenres ==
  /\ ent.kind = "genres"
  /\ ~ent.after.additional_data.wiki_update
  /\ EntityStep([ent EXCEPT !.after = ApplyGenres(<<ent.after>>, <<1>>, ent.answers)[1]])

\* register(...): passwords keeps, for the claims, the password each email
\* was registered with
UserRegister ==
  /\ ent.kind = "users"
  /\ \E rk \in {RegistrationKey, "wrong"}, email \in {"a", ""},
        username \in {"u", ""}, pw \in {"p", "q", ""}, salt \in Salts :
       LET r == register(ent.svc, rk, email, username, pw, salt)
       IN EntityStep([ent EXCEPT
            !.was = ent.svc, !.svc = r.svc,
            !.call = [op |-> "register", registration_key |-> rk, email |-> email,
                      username |-> username, password |-> pw, raised |-> r.raised, key |-> ""],
            !.passwords = IF r.raised = "none" THEN Put(@, email, pw) ELSE @])

\* login(email, password): valid keeps, for the claims, the keys that a login
\* with the registered password returned and no logout has named since
UserLogin ==
  /\ ent.kind = "users"
  /\ \E email \in {"a", "b"}, pw \in {"p", "q"},
        k \in SessionKeys \ DOMAIN ent.svc.sessions_data,
        i \in SessionIds \ DOMAIN ent.svc.session_ids :
       LET r == login(ent.svc, email, pw, k, i)
       IN EntityStep([ent EXCEPT
            !.was = ent.svc, !.svc = r.svc,
            !.call = [op |-> "login", registration_key |-> "", email |-> email,
                      username |-> "",
                      password |-> pw, raised |-> r.raised, key |-> r.key],
            !.valid = IF /\ r.raised = "none"
                         /\ email \in DOMAIN ent.passwords
                         /\ ent.passwords[email] = pw
                      THEN @ \cup {r.key} ELSE @])

\* logout(session_key)
UserLogout ==
  /\ ent.kind = "users"
  /\ \E k \in SessionKeys :
       EntityStep([ent EXCEPT
         !.was = ent.svc, !.svc = logout(ent.svc, k),
         !.call = [op |-> "logout", registration_key |-> "", email |-> "",
                   username |-> "",
                   password |-> "", raised |-> "none", key |-> k],
         !.valid = @ \ {k}])

\* channel.join(email, ws) and channel.leave(email)
ChannelJoin ==
  /\ ent.kind = "channel"
  /\ \E email \in {"a", "b"} :
       EntityStep([ent EXCEPT !.was = ent.channel,
                              !.channel = join(@, email, email),
                              !.call = [op |-> "join", email |-> email, type |-> ""]])

ChannelLeave ==
  /\ ent.kind = "channel"
  /\ \E email \in {"a", "b"} :
       EntityStep([ent EXCEPT !.was = ent.channel,
                              !.channel = leave(@, email),
                              !.call = [op |-> "leave", email |-> email, type |-> ""]])

\* channel.handle_message(email, data)
ChannelMessage ==
  /\ ent.kind = "channel"
  /\ \E email \in {"a", "b"}, data \in Messages :
       EntityStep([ent EXCEPT !.was = ent.channel,
                              !.channel = handle_message(@, email, data, ent.n + 1),
                              !.call = [op |-> "handle_message", email |-> email,
                                        type |-> data.type]])

\* a login while the playback service runs
WsLogin ==
  /\ ent.kind = "ws"
  /\ \E pw \in {"p", "q"}, k \in SessionKeys \ DOMAIN ent.svc.sessions_data,
        i \in SessionIds \ DOMAIN ent.svc.session_ids :
       EntityStep([ent EXCEPT !.svc = login(@, "a", pw, k, i).svc])

\* playback_ws from the connect to the first receive_json
WsConnect ==
  /\ ent.kind = "ws"
  /\ ent.conn.state \in {"none", "closed", "KeyError", "ended"}
  /\ \E owner_id \in SessionKeys \cup {"a"}, song_id \in {"h1", ""},
        session_key \in SessionKeys :
       LET r == Connect(ent.svc, ent.channels, owner_id, song_id, session_key)
       IN EntityStep([ent EXCEPT !.conn = r.conn, !.channels = r.channels])

\* playback_ws: receive_json gives a message
WsReceive ==
  /\ ent.kind = "ws"
  /\ ent.conn.state = "open"
  /\ \E data \in Messages :
       EntityStep([ent EXCEPT !.channels[ent.conn.owner_id] =
                     handle_message(@, ent.conn.email, data, ent.n + 1)])

\* playback_ws: receive_json raises as the websocket ends
WsDisconnect ==
  /\ ent.kind = "ws"
  /\ ent.conn.state = "open"
  /\ EntityStep([ent EXCEPT !.channels[ent.conn.owner_id] =
                    leave(@, ent.conn.session_key),
                  !.conn.state = "ended"])

\* POST /get_songs
GetSongsRequest ==
  /\ ent.kind = "ws"
  /\ \E body_key \in {"", "k1"}, query_key \in {"", "k2"}, email \in {"", "x"} :
       LET request == [body_key |-> body_key, query_key |-> query_key,
                       email |-> email]
           r == get_songs_route(ent.svc, request)
       IN EntityStep([ent EXCEPT
            !.http = [asked |-> TRUE, body_key |-> body_key,
                      query_key |-> query_key, email |-> email,
                      status |-> r.status, ran |-> r.ran]])

\* Transcoding(...).run(): served keeps the requests answered with a file
TranscodeRun ==
  /\ ent.kind = "cache"
  /\ \E t \in TranscodeRequests, ffmpeg_ok \in BOOLEAN :
       LET r == run(ent.cache_dir, t, ffmpeg_ok)
       IN EntityStep([ent EXCEPT
            !.cache_dir = r.cache_dir,
            !.served = IF r.raised = "none"
                       THEN @ \cup {[request |-> t, path |-> r.path]} ELSE @,
            !.call = [asked |-> TRUE, request |-> t, raised |-> r.raised,
                      path |-> r.path, wrote |-> r.wrote,
                      again |-> \E s \in ent.served : s.request = t]])

EntityNext ==
  \/ SongAssign \/ SongGetHash
  \/ RecordAssign \/ SongRoundTrip \/ SongFromPartial
  \/ AlbumAddSong \/ ArtistAddSong \/ ArtistIsArtistOf \/ EnrichAndGroup
  \/ GroupLibrary \/ CompareSongs \/ Recommend \/ EnrichGenres
  \/ UserRegister \/ UserLogin \/ UserLogout
  \/ ChannelJoin \/ ChannelLeave \/ ChannelMessage
  \/ WsLogin \/ WsConnect \/ WsReceive \/ WsDisconnect \/ GetSongsRequest
  \/ TranscodeRun

EntitySpec == EntityInit /\ [][EntityNext]_vars

(***************************************************************************)
(* Claims                                                                  *)
(***************************************************************************)
\* the file at path q carries the identity tags of the persisted record a
SameIdentityTags(a, q) ==
  /\ disk[q] # 0
  /\ LET tg == TagKinds[disk[q]] IN
     /\ a.title = tg.title /\ a.album = tg.album
     /\ a.disc_number = tg.disc_number /\ a.track_number = tg.track_number
     /\ a.album_artist = tg.album_artist
     /\ Range(a.other_artists) = tg.others

\* the pass of task t started from a catalog whose record i is a song with
\* known loudness, the only one of its hash, whose file is gone, while a
\* file with the same identity tags is found at the new path q
MoveCase(t, i, q) ==
  LET cat == scan[t].start_songs.data IN
  /\ scan[t].start_songs.st = "ok"
  /\ scan[t].absent_at_load = {}
  /\ i \in 1..Len(cat)
  /\ \A j \in 1..Len(cat) : cat[j].hash = cat[i].hash => j = i
  /\ Truthy(cat[i].loudness)
  /\ cat[i].file_path \notin Range(scan[t].song_paths)
  /\ q \in Range(scan[t].song_paths)
  /\ \A j \in 1..Len(cat) : cat[j].file_path # q
  /\ SameIdentityTags(cat[i], q)

\* C1: a moved file (same tags, new path) keeps its song: after the pass the
\* song is in the result exactly once, with the new path and the old hash,
\* no song has the stale path, and its loudness was not analysed again
DiffErrors == {"StopIteration", "ValueError: list.remove(x): x not in list"}

C1_MoveKeepsSong ==
  \A t \in TaskIds : \A i \in 1..MaxFiles : \A q \in AllPaths :
    (scan[t].pc \in {"returned", "raised"} /\ MoveCase(t, i, q)) =>
      LET a == scan[t].start_songs.data[i]
          res == scan[t].ret.songs
      IN /\ scan[t].err \notin DiffErrors
         /\ scan[t].pc = "returned" =>
            /\ Cardinality({j \in 1..Len(res) : res[j].hash = a.hash}) = 1
            /\ \A j \in 1..Len(res) :
                 res[j].hash = a.hash => SameIdentityTags(a, res[j].file_path)
            /\ \A j \in 1..Len(res) : res[j].file_path # a.file_path
            /\ i \notin scan[t].loud_calls

\* the pass of task t started from a catalog whose record i is a song whose
\* file is gone, and no scanned file carries its identity tags
DeleteCase(t, i) ==
  LET cat == scan[t].start_songs.data IN
  /\ scan[t].start_songs.st = "ok"
  /\ scan[t].absent_at_load = {}
  /\ scan[t].loaded.songs # <<>>
  /\ i \in 1..Len(cat)
  /\ cat[i].file_path \notin Range(scan[t].song_paths)
  /\ \A q \in Range(scan[t].song_paths) : ~SameIdentityTags(cat[i], q)

\* C2: a pass that finds the file of a persisted song gone completes; its
\* result and data/songs.json hold the other persisted songs still on disk
\* and not the deleted one
C2_DeletionCompletes ==
  \A t \in TaskIds : \A i \in 1..MaxFiles :
    (scan[t].pc \in {"returned", "raised"} /\ DeleteCase(t, i)) =>
      LET cat == scan[t].start_songs.data
          res == scan[t].ret.songs
      IN /\ scan[t].err \notin DiffErrors
         /\ scan[t].pc = "returned" =>
            /\ \A j \in 1..Len(res) : res[j].file_path # cat[i].file_path
            /\ \A k \in 1..Len(cat) :
                 cat[k].file_path \in Range(scan[t].song_paths) =>
                   \E j \in 1..Len(res) : res[j].file_path = cat[k].file_path
            /\ songsJson.st = "ok"
            /\ Len(songsJson.data) = Len(res)
            /\ \A j \in 1..Len(res) : songsJson.data[j].file_path = res[j].file_path

\* the pass of task t runs right after a completed pass, nothing having
\* changed in between, on a catalog whose songs all have a loudness and a
\* play count
SecondPass(t) ==
  /\ scan[t].pass_stable
  /\ scan[t].start_songs.st = "ok"
  /\ \A i \in 1..Len(scan[t].start_songs.data) :
       /\ Truthy(scan[t].start_songs.data[i].loudness)
       /\ scan[t].start_songs.data[i].lastfm_playcount # 0

\* C3: a second pass over an unchanged directory asks for no loudness, no
\* play count and no genre, and ends with data/songs.json as it found it
C3_Idempotent ==
  \A t \in TaskIds :
    SecondPass(t) =>
      /\ scan[t].loud_calls = {}
      /\ scan[t].lastfm_calls = {}
      /\ scan[t].wiki_calls = {}
      /\ scan[t].pc = "returned" => songsJson = scan[t].start_songs

\* C4: no catalog file is ever observable empty or partially written
C4_AtomicSave ==
  /\ songsJson.st # "torn"
  /\ albumsJson.st # "torn"
  /\ artistsJson.st # "torn"

\* C5: when a phase of a pass starts, the changes of the phases before it
\* are in data/songs.json
C5_CheckpointPerPhase ==
  \A t \in TaskIds :
    scan[t].pc \in {"loud", "lastfm", "wiki", "group"} => scan[t].unsaved = {}

\* C6: a pass after a crash does not fail on loading the catalog
C6_LoadsAfterCrash ==
  \A t \in TaskIds :
    nCrashes > 0 => ~(scan[t].pc = "raised" /\ scan[t].err = "JSONDecodeError")

\* C7: load_library with any one catalog file absent returns three empty
\* collections and leaves each absent file holding an empty list
C7_FreshWhenAnyAbsent ==
  \A t \in TaskIds :
    (scan[t].pc = "diff" /\ scan[t].absent_at_load # {}) =>
      /\ scan[t].loaded = EmptySnapshot
      /\ "songs" \in scan[t].absent_at_load => songsJson = FileOf(<<>>)
      /\ "albums" \in scan[t].absent_at_load => albumsJson = FileOf(<<>>)
      /\ "artists" \in scan[t].absent_at_load => artistsJson = FileOf(<<>>)

\* C8: with the environment configured, the periodic loop never ends: no
\* pass, however it ends, is the last
C8_LoopGoesOn ==
  \A t \in TaskIds : (env.music_dir /\ env.lastfm_key) => loops[t] # "failed"

\* C9: at most one loop exists and at most one pass runs, however often
\* start_background_task is called; a pass runs only while its loop awaits
\* it, so the next one starts after the return and the swap of this one
C9_SingleWriter ==
  /\ Cardinality({t \in TaskIds : loops[t] # "none"}) <= 1
  /\ Cardinality({t \in TaskIds : ScanRunning(t)}) <= 1
  /\ \A t \in TaskIds : ScanRunning(t) => (task = t /\ loops[t] = "scan")
  /\ \A t \in TaskIds : loops[t] # "none" => task = t

\* start_background_task has been called more than once, a swap is done
\* and the next pass is running
C9_Witness ==
  /\ nStartCalls > 1
  /\ library_snapshot # EmptySnapshot
  /\ \E t \in TaskIds : ScanRunning(t) /\ scan[t].pc = "group"

\* C10: the cache lock is free whenever a pass is running, so a reader is
\* not kept waiting; a running pass leaves the snapshot alone, and a read
\* made during a pass returns the triple of the last swap
C10_ReadersDoNotWait ==
  [][\A t \in TaskIds :
       ScanRunning(t) =>
         /\ lock = 0
         /\ ScanRunning(t)' => library_snapshot' = library_snapshot
         /\ lastRead' # lastRead =>
              (lastRead'.during /\ lastRead'.result = library_snapshot)]_vars

\* a read made during the second pass returned the result of the first
C10_Witness ==
  /\ lastRead.during
  /\ lastRead.result # EmptySnapshot
  /\ lastRead.result = library_snapshot
  /\ \E t \in TaskIds : ScanRunning(t)


\* C11: snapshot consistency.  In every state a handler can observe, each
\* index holds exactly the entities of the current triple, each under the key
\* derived from it (song hash, hash of the cover path, album hash, artist
\* name), so triple and indices come from one pass; and while a pass is
\* running, no step changes the triple, its objects or the indices.
IndexConsistent ==
  /\ DOMAIN song_map = {get_hash(x) : x \in Range(library_snapshot.songs)}
  /\ \A k \in DOMAIN song_map :
        song_map[k] \in Range(library_snapshot.songs) /\ get_hash(song_map[k]) = k
  /\ DOMAIN cover_map = {CoverKey(x) : x \in Range(library_snapshot.songs)}
  /\ \A k \in DOMAIN cover_map :
        \E x \in Range(library_snapshot.songs) :
          x.cover_art = cover_map[k] /\ CoverKey(x) = k
  /\ DOMAIN album_map = {x.hash : x \in Range(library_snapshot.albums)}
  /\ \A k \in DOMAIN album_map :
        album_map[k] \in Range(library_snapshot.albums) /\ album_map[k].hash = k
  /\ DOMAIN artist_map = {x.name : x \in Range(library_snapshot.artists)}
  /\ \A k \in DOMAIN artist_map :
        artist_map[k] \in Range(library_snapshot.artists) /\ artist_map[k].name = k

C11_SnapshotConsistent ==
  [][/\ IndexConsistent
     /\ IndexConsistent'
     /\ (\E t \in TaskIds : ScanRunning(t) /\ ScanRunning(t)') =>
          UNCHANGED catalog]_vars

\* a second pass is under way while the non-empty result of the first one,
\* with its indices, is being served
C11_Witness ==
  /\ library_snapshot.songs # <<>>
  /\ library_snapshot.albums # <<>>
  /\ library_snapshot.artists # <<>>
  /\ DOMAIN song_map # {}
  /\ DOMAIN cover_map # {}
  /\ \E t \in TaskIds : scan[t].pc = "group"

\* C12: lookup misses.  get_song / get_album / get_artist return None exactly
\* when the current snapshot holds no song / album / artist with the hash /
\* name asked for, and otherwise an element of the snapshot with that key;
\* has_song says whether get_song would find a song.
C12_LookupMisses ==
  /\ reply.op = "get_song" =>
        /\ reply.result = None <=>
             ~\E x \in Range(library_snapshot.songs) : get_hash(x) = reply.arg
        /\ reply.result # None =>
             /\ reply.result[1] \in Range(library_snapshot.songs)
             /\ get_hash(reply.result[1]) = reply.arg
  /\ reply.op = "get_album" =>
        /\ reply.result = None <=>
             ~\E x \in Range(library_snapshot.albums) : x.hash = reply.arg
        /\ reply.result # None =>
             /\ reply.result[1] \in Range(library_snapshot.albums)
             /\ reply.result[1].hash = reply.arg
  /\ reply.op = "get_artist" =>
        /\ reply.result = None <=>
             ~\E x \in Range(library_snapshot.artists) : x.name = reply.arg
        /\ reply.result # None =>
             /\ reply.result[1] \in Range(library_snapshot.artists)
             /\ reply.result[1].name = reply.arg
  /\ reply.op = "has_song" =>
        (reply.result <=> FirstSongWithHash(library_snapshot.songs, reply.arg) # None)

\* a song is asked for that a non-empty snapshot does not hold
C12_Witness ==
  /\ reply.op = "get_song"
  /\ reply.result = None
  /\ library_snapshot.songs # <<>>

\* C13: get_song_by_metadata returns the first song, in snapshot order, whose
\* value equals the query's in every field the query gives (for the artist:
\* the song's artist string, its album artist or one of its other artists),
\* and None when there is none; containing the queried artist as a substring
\* is not enough.
ExactlyMatches(metadata, song) ==
  /\ "artist" \in DOMAIN metadata =>
       \/ metadata.artist = get_artists(song)
       \/ metadata.artist = song.album_artist
       \/ metadata.artist \in Range(song.other_artists)
  /\ "album" \in DOMAIN metadata => song.album = metadata.album
  /\ "title" \in DOMAIN metadata => song.title = metadata.title
  /\ "track_number" \in DOMAIN metadata => song.track_number = metadata.track_number

C13_ExactMetadataMatch ==
  reply.op = "get_song_by_metadata" =>
    LET songs == library_snapshot.songs
        exact == {i \in 1..Len(songs) : ExactlyMatches(reply.arg, songs[i])}
    IN IF exact = {} THEN reply.result = None
       ELSE reply.result = <<songs[CHOOSE i \in exact : \A j \in exact : i <= j]>>

\* C14: search_song returns exactly the songs whose token Jaccard index with
\* the search term is above 0, the index being |A n B| / |A u B| for the sets
\* of lower-cased words of the term and of the descriptor "artist - title
\* (track on album)" built from the song's artist names, and it returns them
\* in the order of non-increasing index.
Descriptor(song) ==
  get_artists(song) \o <<" ", "-", " ">> \o song.title \o <<" ", "(">>
    \o StrOfInt(song.track_number) \o <<" ", "o", "n", " ">> \o song.album \o <<")">>

\* the index as <<size of the intersection, size of the union>>
TokenJaccard(song, term) ==
  LET a == Range(Words(Lower(Descriptor(song))))
      b == Range(Words(Lower(term)))
  IN <<Cardinality(a \cap b), Cardinality(a \cup b)>>

C14_SearchByJaccard ==
  reply.op = "search_song" =>
    LET found == reply.result
        J(x) == TokenJaccard(x, reply.arg)
    IN /\ Range(found) = {x \in Range(library_snapshot.songs) : J(x)[1] > 0}
       /\ \A i, j \in 1..Len(found) :
            i < j => J(found[i])[1] * J(found[j])[2] >= J(found[j])[1] * J(found[i])[2]

\* C15: song identity.  For the states of a song before and after a field
\* assignment (also when get_hash was called before), get_hash() differs if
\* and only if one of album artist, other artists, album, disc number, track
\* number or title differs; so a change of file_path alone leaves it as it is.
IdentityDiffers(a, b) ==
  \/ a.album_artist # b.album_artist
  \/ a.other_artists # b.other_artists
  \/ a.album # b.album
  \/ a.disc_number # b.disc_number
  \/ a.track_number # b.track_number
  \/ a.title # b.title

C15_SongIdentity ==
  ent.kind = "song" =>
    (get_hash(ent.before) # get_hash(ent.song) <=> IdentityDiffers(ent.before, ent.song))

\* C16: song record round trip.  Song.from_dict(s.to_dict()) equals s in
\* every field of the record, the genres list and the hash included, and
\* from_dict of a record that lacks a key gives that field its default.
FieldDefaults ==
  [file_path |-> <<>>, track_number |-> 0, disc_number |-> 0, title |-> <<>>,
   album_artist |-> <<>>, other_artists |-> <<>>, album |-> <<>>,
   duration |-> 0, release_year |-> 0, genres |-> <<>>, play_count |-> 0,
   cover_art |-> <<>>, loudness |-> RatZero, peak |-> RatZero, lastfm_playcount |-> 0,
   lastfm_tags |-> <<>>, hash |-> NoHash]

C16_RecordRoundTrip ==
  ent.kind = "record" =>
    \A k \in PersistedKeys :
      IF k \in DOMAIN ent.data THEN ent.back[k] = ent.song[k]
      ELSE ent.back[k] = FieldDefaults[k]

\* C17: album name.  After any sequence of add_song calls, album.name is the
\* album value all songs share if they are unanimous, and otherwise a value
\* that occurs most often among the songs whose album is non-empty and not
\* "unknown" (albums Y, Y, unknown give Y; albums Y, Y, Z give Y).
Known(v) == v # <<>> /\ Lower(v) # UnknownName

\* the known values that no other known value outnumbers
MostFrequent(values) ==
  {v \in Range(values) :
     /\ Known(v)
     /\ \A w \in Range(values) :
          Known(w) => Cardinality({i \in DOMAIN values : values[i] = w})
                        <= Cardinality({i \in DOMAIN values : values[i] = v})}

C17_AlbumName ==
  (ent.kind = "album" /\ ent.added # <<>>) =>
    LET values == [i \in 1..Len(ent.added) |-> Shelf[ent.added[i]].album]
    IN MostFrequent(values) # {} => ent.album.name \in MostFrequent(values)

\* C18: album artist.  After any sequence of add_song calls, album.album_artist
\* is the album artist all songs share if they are unanimous, otherwise one
\* that occurs most often among the album's current songs, and "Various
\* Artists" when no song has a known album artist; a value that only an
\* earlier, smaller set of songs gave does not stay.
C18_AlbumArtist ==
  (ent.kind = "album" /\ ent.added # <<>>) =>
    LET values == [i \in 1..Len(ent.added) |-> Shelf[ent.added[i]].album_artist]
    IN IF MostFrequent(values) # {}
       THEN ent.album.album_artist \in MostFrequent(values)
       ELSE ent.album.album_artist = VariousArtistsName

\* C19: album ordering and aggregates.  After every add_song, album.songs
\* holds every added song, in the order of non-decreasing (disc_number,
\* track_number); album.play_count is the sum of the songs' play counts,
\* album.release_year the largest release year of its songs, and album.hash and
\* album_path are those the album was made with.
C19_AlbumOrderAndAggregates ==
  ent.kind = "album" =>
    LET album == ent.album
        song(i) == Shelf[album.songs[i]]
        n == Len(album.songs)
    IN /\ n = Len(ent.added)
       /\ Range(album.songs) = Range(ent.added)
       /\ \A i \in 1..(n - 1) :
            \/ song(i).disc_number < song(i + 1).disc_number
            \/ /\ song(i).disc_number = song(i + 1).disc_number
               /\ song(i).track_number <= song(i + 1).track_number
       /\ album.play_count = SumSeq([i \in 1..n |-> song(i).play_count])
       /\ album.release_year = MaxOf({song(i).release_year : i \in 1..n} \cup {0})
       /\ album.album_path = NewAlbum(DirName(PXA)).album_path
       /\ album.hash = NewAlbum(DirName(PXA)).hash

\* three songs were added in another order than that of their tracks
C19_Witness ==
  /\ ent.kind = "album"
  /\ Len(ent.added) = 3
  /\ ent.album.songs # ent.added
  /\ ent.album.play_count > 0

\* C20: artist aggregate.  After any sequence of artist.add_song calls, calls
\* repeated with the same song included, each song is in artist.songs at most
\* once and artist.play_count is the sum of play_count over artist.songs.
C20_ArtistAggregate ==
  ent.kind = "artist" =>
    LET artist == ent.artist
        n == Len(artist.songs)
    IN /\ \A i, j \in 1..n : i # j => artist.songs[i] # artist.songs[j]
       /\ artist.play_count = SumSeq([i \in 1..n |-> Shelf[artist.songs[i]].play_count])

\* C21: is_artist_of agrees with the simplified-name identity.  a.is_artist_of(s)
\* is true iff get_simple_name(a.name) is among the get_simple_name values of
\* s's album artist (as a whole or as one of its comma-separated parts) and
\* other artists; so Artist(n).is_artist_of(s) is true whenever s.album_artist
\* is n.
SimpleNamesOf(song) ==
  {get_simple_name(x) :
     x \in (IF song.album_artist # <<>>
            THEN {song.album_artist} \cup Range(SplitChars(song.album_artist, {","}))
            ELSE {})
           \cup Range(song.other_artists)}

C21_IsArtistOf ==
  (ent.kind = "artist_of" /\ ent.n > 0) =>
    (ent.result <=> get_simple_name(ent.artist.name) \in SimpleNamesOf(ent.song))

\* C22: "Various Artists" exclusion.  For a song that names "Various Artists"
\* or a localized variant, in any letter case, next to another artist, no
\* play-count/tag lookup and no genre lookup is made under that name, and no
\* Artist grouping is created for it.
IsVarious(name) == Lower(name) \in VARIOUS_TERMS

C22_VariousExcluded ==
  (ent.kind = "compilation" /\ ent.n > 0) =>
    /\ \A i \in 1..Len(ent.lastfm) : ~IsVarious(ent.lastfm[i])
    /\ \A w \in ent.wiki : w \notin {get_simple_name(v) : v \in VARIOUS_TERMS}
    /\ \A i \in 1..Len(ent.grouped) : ~IsVarious(ent.grouped[i].name)

\* C23: after the grouping of a pass, a song with a play count has the
\* popularity (play_count + lastfm_playcount) / max(1, P) where P is the play
\* count of an artist whose songs contain it, and a song with no play count
\* anywhere has popularity 0
C23_Popularity ==
  (ent.kind = "library" /\ ent.n > 0) =>
    \A o \in 1..Len(ent.heap) :
      LET s == ent.heap[o]
          total == s.play_count + s.lastfm_playcount
      IN IF total = 0 THEN s.popularity = RatZero
         ELSE \E i \in 1..Len(ent.artists) :
                /\ o \in Range(ent.artists[i].songs)
                /\ s.popularity = RatNorm(total, MaxOf({1, ent.artists[i].play_count}))

\* the errors of one song's analysis or enrichment call: the HTTP lookup of
\* LastFMClient.get_track_info raises
PerSongErrors == {"requests.ConnectionError"}

\* C24: a failure of the loudness analysis or of an enrichment call for one
\* song never aborts the pass: no pass of scan_library ends raising the error
\* of such a call
C24_PerSongFailureNeverAborts ==
  \A t \in TaskIds : scan[t].pc = "raised" => scan[t].err \notin PerSongErrors

\* C25: a song whose loudness analysis failed in a pass has its loudness
\* unset in the songs file that the pass leaves behind (so that the next pass
\* submits it for analysis again)
C25_FailedLoudnessStaysUnset ==
  \A t \in TaskIds :
    LET st == scan[t] IN
    (st.pc = "returned" /\ songsJson = FileOf(ToDicts(st))) =>
      \A i \in 1..Len(st.updated) :
        st.updated[i] \in st.loud_failed => songsJson.data[i].loudness = RatZero

\* the service is up and answers from an empty catalog: start_background_task
\* has returned with the task created, and the handlers find the lock free
\* and the initial snapshot
ServesEmptyCatalog ==
  /\ task # 0
  /\ lock = 0
  /\ library_snapshot = EmptySnapshot

\* C26: with MUSIC_DIR unset the ValueError of scan_library is raised out of
\* the startup: the service is never up, answering from an empty catalog,
\* with its scan ended by that error
C26_ConfigErrorFatalAtStartup ==
  ~(/\ ~env.music_dir
    /\ \E t \in TaskIds : task = t /\ loops[t] = "failed"
    /\ ServesEmptyCatalog)

\* C27: calc_song_similarity(s, s) is 1, calc_song_similarity(a, b) equals
\* calc_song_similarity(b, a), and every result lies between 0 and 1
C27_SimilarityReflexiveSymmetricBounded ==
  (ent.kind = "pair" /\ ent.n > 0) =>
    /\ ent.aa = RatOfInt(1)
    /\ ent.ab = ent.ba
    /\ \A r \in {ent.aa, ent.ab, ent.ba} :
         ~RatLess(r, RatZero) /\ ~RatLess(RatOfInt(1), r)

\* two songs of different albums whose genre lists overlap in part and whose
\* release years are more than five years apart have been compared
C27_Witness ==
  /\ ent.kind = "pair" /\ ent.n > 0
  /\ ent.a.genres = <<GenreK>> /\ ent.b.genres = <<GenreK, GenreRP>>
  /\ ent.a.release_year = 1999 /\ ent.b.release_year = 2010
  /\ ent.ab = RatNorm(5, 22)

\* the candidates of a call: not the input song, two minutes or longer
Eligible(song, pool) ==
  {i \in 1..Len(pool) : i # song /\ pool[i].duration >= 120}

\* C28: song_recommendations(song, pool, number=N) returns, for every pool, a
\* list without the input song, without duplicates and of at most N songs,
\* and when there are at most N eligible candidates it returns each of them
\* exactly once
C28_Recommendations ==
  (ent.kind = "pool" /\ ent.n > 0) =>
    LET r == ent.result.songs
        eligible == Eligible(ent.input, ent.pool)
    IN /\ ent.result.raised = "none"
       /\ ent.input \notin Range(r)
       /\ \A i, j \in 1..Len(r) : i # j => r[i] # r[j]
       /\ Len(r) <= ent.number
       /\ Cardinality(eligible) <= ent.number =>
            (Range(r) = eligible /\ Len(r) = Cardinality(eligible))

\* C29: the genre step assigns the union of the looked-up genres only to a
\* song whose genre list is empty; the genres of a song that already has
\* genres are unchanged by the step
C29_GenresOnlyWhereMissing ==
  (ent.kind = "genres" /\ ent.n > 0) =>
    IF ent.before.genres # <<>>
    THEN ent.after.genres = ent.before.genres
    ELSE Range(ent.after.genres) =
           UNION {Range(ent.answers[n]) : n \in WikiNames(ent.before)}

\* the file lies in the directory or in a subdirectory of it: the directory,
\* followed by a slash, is a prefix of the file path (case-insensitive, with
\* backslashes as slashes)
LiesIn(file_path, dir) ==
  LET d == NormPath(dir) \o <<"/">>
      p == NormPath(file_path)
  IN Len(d) <= Len(p) /\ SubSeq(p, 1, Len(d)) = d

\* C30: after the grouping of a pass there is exactly one album per distinct
\* parent directory of the files, and a song is in an album's list iff its
\* file lies in the album's directory or a subdirectory; a song in a sibling
\* directory whose name starts with the album directory's name is no member
C30_AlbumGrouping ==
  (ent.kind = "library" /\ ent.n > 0) =>
    LET dirs == {DirName(ent.heap[o].file_path) : o \in 1..Len(ent.heap)}
    IN /\ Len(ent.albums) = Cardinality(dirs)
       /\ {ent.albums[j].album_path : j \in 1..Len(ent.albums)} = dirs
       /\ \A j \in 1..Len(ent.albums) : \A o \in 1..Len(ent.heap) :
            o \in Range(ent.albums[j].songs)
              <=> LiesIn(ent.heap[o].file_path, ent.albums[j].album_path)

\* C31: the song list a pass returns has exactly one entry for each audio
\* path the scan found: no path is missing and no path (and no Song object)
\* is listed twice, also when two files carry the same identity tags
C31_OneEntryPerFile ==
  \A t \in TaskIds :
    scan[t].pc = "returned" =>
      LET songs == scan[t].ret.songs
      IN /\ {songs[i].file_path : i \in 1..Len(songs)} = Range(scan[t].song_paths)
         /\ Len(songs) = Len(scan[t].song_paths)

\* C32: when no song of the pool is an eligible candidate (every song other
\* than the input song is shorter than 120 s), song_recommendations returns
\* the empty list and does not raise
C32_NoCandidatesGivesEmptyList ==
  (ent.kind = "pool" /\ ent.n > 0 /\ Eligible(ent.input, ent.pool) = {}) =>
    ent.result = [raised |-> "none", songs |-> <<>>]

\* C33: for a song of the current snapshot that has a cover_art path, the
\* cover-art request made with the song's hash is answered with that path
\* (it is not answered "Cover art not found")
C33_CoverLookup ==
  reply.op = "get_cover_art" =>
    \A i \in 1..Len(library_snapshot.songs) :
      LET song == library_snapshot.songs[i] IN
      (get_hash(song) = reply.arg /\ song.cover_art # <<>>) =>
        /\ reply.result.status = 200
        /\ reply.result.file \in
             {x.cover_art : x \in {y \in Range(library_snapshot.songs) :
                                      get_hash(y) = reply.arg}}

\* C36: get_user_by_session(k) returns a user only for a key k that a login
\* with the registered password returned and no logout has named since; a
\* login with an unknown email or a wrong password raises ValueError and
\* creates no session; a register with a wrong registration key, a missing
\* field or a registered email raises ValueError and leaves the users alone
C36_SessionLifecycle ==
  ent.kind = "users" =>
    /\ \A k \in SessionKeys :
         get_user_by_session(ent.svc, k) # None => k \in ent.valid
    /\ (ent.call.op = "login" /\
          (ent.call.email \notin DOMAIN ent.passwords
             \/ ent.passwords[ent.call.email] # ent.call.password)) =>
         /\ ent.call.raised = "ValueError: Invalid credentials"
         /\ ent.svc = ent.was
    /\ (ent.call.op = "register" /\
          (\/ ent.call.registration_key # RegistrationKey
           \/ ent.call.email = "" \/ ent.call.username = "" \/ ent.call.password = ""
           \/ ent.call.email \in DOMAIN ent.was.users)) =>
         /\ ent.call.raised # "none"
         /\ ent.svc.users = ent.was.users
         /\ ent.svc.users_file = ent.was.users_file

\* a user has registered, logged in with the right password and logged out:
\* the key no longer gives the user
C36_Witness ==
  /\ ent.kind = "users"
  /\ ent.call.op = "logout"
  /\ ent.call.key \in DOMAIN ent.was.sessions_data
  /\ get_user_by_session(ent.was, ent.call.key) # None
  /\ get_user_by_session(ent.svc, ent.call.key) = None

C35_OnlyOwnerChangesPlayback ==
  (ent.kind = "channel" /\ ent.call.op = "handle_message"
     /\ ent.call.email # ent.channel.owner) =>
    /\ ent.channel.current_index = ent.was.current_index
    /\ ent.channel.position = ent.was.position
    /\ ent.channel.start_time = ent.was.start_time

\* C37: a request to a route behind require_session that carries no session
\* key, or a key of no logged-in user, is answered with status 401 and the
\* handler does not run
C37_RoutesNeedSession ==
  (ent.kind = "ws" /\ ent.http.asked) =>
    LET session_key == IF ent.http.body_key # "" THEN ent.http.body_key
                       ELSE ent.http.query_key
    IN (session_key = "" \/ get_user_by_session(ent.svc, session_key) = None) =>
         (ent.http.status = 401 /\ ~ent.http.ran)

\* C38: a second run of the same request returns the same path and writes
\* nothing, and two requests that differ in the song, the format, the bitrate
\* or only the volume change are never answered with the same cached file
C38_TranscodeCacheKeyedOnAllInputs ==
  ent.kind = "cache" =>
    /\ (ent.call.asked /\ ent.call.again) =>
         /\ ent.call.raised = "none"
         /\ ent.call.wrote = "nothing"
         /\ \A s \in ent.served :
              s.request = ent.call.request => s.path = ent.call.path
    /\ \A s1 \in ent.served, s2 \in ent.served :
         s1.request # s2.request => s1.path # s2.path

\* C39: an album built by add_song from a set of songs has the same name,
\* album_artist, release_year and play_count whatever the order of the calls
C39_AlbumFieldsIndependentOfOrder ==
  ent.kind = "album" =>
    \A order \in DistinctSeqs(Range(ent.added), Len(ent.added)) :
      LET other == AddSongs(NewAlbum(DirName(PXA)), order, Shelf)
      IN /\ other.name = ent.album.name
         /\ other.album_artist = ent.album.album_artist
         /\ other.release_year = ent.album.release_year
         /\ other.play_count = ent.album.play_count

\* C40: after the grouping of a pass no two artists of the catalog carry the
\* same name, every artist is the artist of each song in its song list, and
\* the index by name has one entry for each artist
C40_ArtistNamesDistinct ==
  (ent.kind = "library" /\ ent.n > 0) =>
    /\ \A i, j \in 1..Len(ent.artists) :
         i # j => ent.artists[i].name # ent.artists[j].name
    /\ \A i \in 1..Len(ent.artists) :
         \A o \in Range(ent.artists[i].songs) :
           is_artist_of(ent.artists[i], ent.heap[o])
    /\ Cardinality(DOMAIN ArtistMapOf(ent.artists)) = Len(ent.artists)

====
